---- MODULE Spec2Model ----
(***************************************************************************)
(* A model of the CSV import/export layer (utils/csvHelper) and of the     *)
(* record-list sections that call it.                                      *)
(*                                                                         *)
(* A JavaScript string is a sequence of characters, each character a       *)
(* one-element name ("a", ",", ...).  A JavaScript value is a tagged       *)
(* record, so that undefined, null, numbers, NaN and strings stay apart.   *)
(***************************************************************************)
EXTENDS Integers, Sequences, FiniteSets, TLC

VARIABLES
    phase,      \* position of the run: which step comes next
    cells,      \* CSV engine run: the values handed to escapeCSV
    escaped,    \* CSV engine run: the escaped cells
    line,       \* CSV engine run: the joined line given to parseCSVLine
    fields,     \* CSV engine run: the result of parseCSVLine
    kind,       \* adapter run: the record kind, which selects the adapter
    recs,       \* adapter run: the record list given to generate
    upload,     \* adapter run: the lines and line ending an uploaded file is made of
    text,       \* adapter run: the CSV text (generated, or an uploaded file)
    out,        \* adapter run: what parse returned (Arr(items) or TypeError)
    clock,      \* adapter run: what Date.now() returned during the parse call
    items,      \* section: the record list held in React state
    reading,    \* section: the file texts whose FileReader read is in flight
    prev,       \* section: the list the updater of the last import received
    now,        \* section: the value Date.now() currently returns
    generating, \* section: the items closure of a handleGenerate call awaiting the AI service
    user,       \* the id of the current profile, which selects the storage key
    mounted,    \* whether the section is mounted
    storage,    \* localStorage: per profile what is saved under the section's key
    fetching,   \* the number of seed fetches of the mounted section still pending
    load,       \* what the last run of the load effect read and did
    users,      \* UserProvider: the ids of the profile list
    registry,   \* localStorage: what is saved under myhub_users and myhub_current_user_id
    tabs,       \* two browser tabs: whether each has the section mounted, and its list
    pending     \* the effects of the last commit still to run, and the queued setItems

csvVars == <<cells, escaped, line, fields>>
adapterVars == <<kind, recs, upload, text, out, clock>>
sectionVars == <<items, reading, prev, now, generating>>
loadVars == <<user, mounted, storage, fetching, load>>
appVars == <<users, registry, tabs, pending>>
vars == <<phase, cells, escaped, line, fields, kind, recs, upload, text, out, clock,
          items, reading, prev, now, generating, user, mounted, storage, fetching, load,
          users, registry, tabs, pending>>

----------------------------------------------------------------------------
(* Characters *)

QUOTE == "\""
COMMA == ","
NL    == "\n"
CR    == "\r"
SPACE == " "
SEMI  == ";"
\* U+FEFF, the byte-order mark written in front of every export
BOM   == "U+FEFF"

\* String.prototype.trim strips white space and line terminators; U+FEFF is
\* white space for it.
WhiteSpace == {SPACE, NL, CR, "\t", BOM}

----------------------------------------------------------------------------
(* JavaScript values *)

Undefined == [t |-> "undefined"]
Null      == [t |-> "null"]
NaN       == [t |-> "NaN"]
TypeError == [t |-> "TypeError"]
Str(s)    == [t |-> "string", s |-> s]
Num(n)    == [t |-> "number", n |-> n]

IsStr(v) == v.t = "string"
IsNum(v) == v.t = "number"

Digit(d) == <<"0", "1", "2", "3", "4", "5", "6", "7", "8", "9">>[d + 1]
DigitChars == {Digit(d) : d \in 0..9}
DigitVal(c) == CHOOSE d \in 0..9 : Digit(d) = c

RECURSIVE DecimalOf(_)
DecimalOf(n) == IF n < 10 THEN <<Digit(n)>> ELSE Append(DecimalOf(n \div 10), Digit(n % 10))

\* String(v) for the values the adapters pass to escapeCSV
String(v) ==
    CASE v.t = "string" -> v.s
      [] v.t = "number" -> DecimalOf(v.n)
      [] v.t = "NaN"    -> <<"N", "a", "N">>
      [] v.t = "null"   -> <<"n", "u", "l", "l">>
      [] OTHER          -> <<"u", "n", "d", "e", "f", "i", "n", "e", "d">>

\* str.includes(c)
Includes(s, c) == \E k \in 1..Len(s) : s[k] = c

RECURSIVE Join(_, _)
\* array.join(sep) of an array of strings
Join(arr, sep) ==
    IF arr = <<>> THEN <<>>
    ELSE IF Len(arr) = 1 THEN arr[1]
    ELSE arr[1] \o sep \o Join(Tail(arr), sep)

----------------------------------------------------------------------------
(* CSV primitive engine *)

RECURSIVE DoubleQuotes(_)
\* stringified.replace(/"/g, '""')
DoubleQuotes(s) ==
    IF s = <<>> THEN <<>>
    ELSE (IF Head(s) = QUOTE THEN <<QUOTE, QUOTE>> ELSE <<Head(s)>>) \o DoubleQuotes(Tail(s))

NeedsQuoting(s) == Includes(s, COMMA) \/ Includes(s, NL) \/ Includes(s, QUOTE)

\* escapeCSV without the doubling of embedded quotes
escapeCSV_NoDoubling(v) ==
    IF v = Undefined \/ v = Null THEN <<>>
    ELSE LET stringified == String(v) IN
         IF NeedsQuoting(stringified)
         THEN <<QUOTE>> \o stringified \o <<QUOTE>>
         ELSE stringified

\* escapeCSV that quotes on a comma or a double quote only
escapeCSV_NoNewline(v) ==
    IF v = Undefined \/ v = Null THEN <<>>
    ELSE LET stringified == String(v) IN
         IF Includes(stringified, COMMA) \/ Includes(stringified, QUOTE)
         THEN <<QUOTE>> \o DoubleQuotes(stringified) \o <<QUOTE>>
         ELSE stringified

escapeCSV(v) ==
    IF v = Undefined \/ v = Null THEN <<>>
    ELSE LET stringified == String(v) IN
         IF NeedsQuoting(stringified)
         THEN <<QUOTE>> \o DoubleQuotes(stringified) \o <<QUOTE>>
         ELSE stringified

\* The scanner of parseCSVLine: i is the 0-based loop index.
ScanInit == [i |-> 0, current |-> <<>>, inQuotes |-> FALSE, result |-> <<>>]

\* One iteration of the for loop (the loop's i++ included)
ScanStep(st, ln) ==
    LET char == ln[st.i + 1] IN
    IF char = QUOTE THEN
        IF st.inQuotes /\ st.i + 2 <= Len(ln) /\ ln[st.i + 2] = QUOTE
        THEN [st EXCEPT !.current = Append(@, QUOTE), !.i = @ + 2]
        ELSE [st EXCEPT !.inQuotes = ~@, !.i = @ + 1]
    ELSE IF char = COMMA /\ ~st.inQuotes
        THEN [st EXCEPT !.result = Append(@, st.current), !.current = <<>>, !.i = @ + 1]
        ELSE [st EXCEPT !.current = Append(@, char), !.i = @ + 1]

RECURSIVE ScanFrom(_, _)
ScanFrom(st, ln) == IF st.i < Len(ln) THEN ScanFrom(ScanStep(st, ln), ln) ELSE st

\* a scanner that drops an empty last field
parseCSVLine_DropsEmptyLast(ln) ==
    LET st == ScanFrom(ScanInit, ln) IN
    IF st.current = <<>> THEN st.result ELSE Append(st.result, st.current)

parseCSVLine(ln) ==
    LET st == ScanFrom(ScanInit, ln) IN Append(st.result, st.current)

----------------------------------------------------------------------------
(* String and value helpers the adapters use *)

RECURSIVE TrimStart(_)
TrimStart(s) == IF s # <<>> /\ Head(s) \in WhiteSpace THEN TrimStart(Tail(s)) ELSE s

RECURSIVE TrimEnd(_)
TrimEnd(s) ==
    IF s # <<>> /\ s[Len(s)] \in WhiteSpace THEN TrimEnd(SubSeq(s, 1, Len(s) - 1)) ELSE s

\* str.trim()
Trim(s) == TrimEnd(TrimStart(s))

\* SplitLines that cuts at "\n" only and leaves a "\r" at the end of the line
SplitLines_KeepCR(t) ==
    LET positions == [p \in 1..Len(t) |-> p]
        IsBreak(p) == t[p] = NL
        breaks == SelectSeq(positions, IsBreak)
        n == Len(breaks)
        First(k) == IF k = 1 THEN 1 ELSE breaks[k - 1] + 1
        Last(k) == IF k = n + 1 THEN Len(t) ELSE breaks[k] - 1
    IN [k \in 1..(n + 1) |-> SubSeq(t, First(k), Last(k))]

\* csvText.split(/\r?\n/): the text is cut at every "\n", and a "\r" right
\* before the "\n" belongs to the separator.
SplitLines(t) ==
    LET positions == [p \in 1..Len(t) |-> p]
        IsBreak(p) == t[p] = NL
        breaks == SelectSeq(positions, IsBreak)
        n == Len(breaks)
        First(k) == IF k = 1 THEN 1 ELSE breaks[k - 1] + 1
        Last(k) ==
            IF k = n + 1 THEN Len(t)
            ELSE IF breaks[k] - 1 >= First(k) /\ t[breaks[k] - 1] = CR
                THEN breaks[k] - 2
                ELSE breaks[k] - 1
    IN [k \in 1..(n + 1) |-> SubSeq(t, First(k), Last(k))]

IsNonBlank(l) == Trim(l) # <<>>

\* csvText.split(/\r?\n/).filter(l => l.trim())
Lines(csvText) == SelectSeq(SplitLines(csvText), IsNonBlank)

RECURSIVE SplitStrFrom(_, _, _, _, _)
SplitStrFrom(s, sep, p, cur, acc) ==
    IF p > Len(s) THEN Append(acc, cur)
    ELSE IF p + Len(sep) - 1 <= Len(s) /\ SubSeq(s, p, p + Len(sep) - 1) = sep
        THEN SplitStrFrom(s, sep, p + Len(sep), <<>>, Append(acc, cur))
        ELSE SplitStrFrom(s, sep, p + 1, Append(cur, s[p]), acc)

\* str.split(sep) for a non-empty separator string
SplitStr(s, sep) == SplitStrFrom(s, sep, 1, <<>>, <<>>)

Arr(a) == [t |-> "array", a |-> a]

\* value.split(sep): a method call, which throws on undefined
MethodSplit(v, sep) == IF IsStr(v) THEN Arr(SplitStr(v.s, sep)) ELSE TypeError

\* array.map(t => t.trim())
MapTrim(v) == IF v.t = "array" THEN Arr([k \in 1..Len(v.a) |-> Trim(v.a[k])]) ELSE TypeError

RECURSIVE DecimalValue(_)
DecimalValue(s) == IF s = <<>> THEN 0 ELSE 10 * DecimalValue(SubSeq(s, 1, Len(s) - 1)) + DigitVal(s[Len(s)])

\* Number(v) for undefined and for strings of digits, white space and
\* characters that are part of no numeric literal (the model's strings hold
\* no sign, decimal point, exponent, radix prefix or "Infinity").
Number(v) ==
    IF ~IsStr(v) THEN NaN
    ELSE LET s == Trim(v.s) IN
         IF \A k \in 1..Len(s) : s[k] \in DigitChars THEN Num(DecimalValue(s)) ELSE NaN

Truthy(v) ==
    CASE v.t = "string" -> v.s # <<>>
      [] v.t = "number" -> v.n # 0
      [] v.t = "array"  -> TRUE
      [] OTHER          -> FALSE

\* a || b
Or(a, b) == IF Truthy(a) THEN a ELSE b

\* cols[k], k counted from 0: undefined past the end of the array
Col(cols, k) == IF k < Len(cols) THEN Str(cols[k + 1]) ELSE Undefined

\* The clock of one parse call: clk[2i-1] is what Date.now() returns in the id
\* expression of row i, clk[2i] what it returns in the addedAt expression.
NowId(clk, i) == clk[2 * i - 1]
NowAddedAt(clk, i) == clk[2 * i]

\* IdOf without the row index: cols[0] || Date.now().toString()
IdOf_NoIndex(cols, i, clk) == Or(Col(cols, 0), Str(DecimalOf(NowId(clk, i))))

\* cols[0] || Date.now().toString() + i
IdOf(cols, i, clk) == Or(Col(cols, 0), Str(DecimalOf(NowId(clk, i)) \o DecimalOf(i)))

\* AddedAtOf that ignores the cell: Date.now()
AddedAtOf_AlwaysNow(cols, k, i, clk) == Num(NowAddedAt(clk, i))

\* Number(cols[k]) || Date.now()
AddedAtOf(cols, k, i, clk) == Or(Number(Col(cols, k)), Num(NowAddedAt(clk, i)))

\* the values of the loop variable: for (let i = 1; i < lines.length; i++)
RowIndices(lines) == [k \in 1..(Len(lines) - 1) |-> k]

\* a throw inside the loop ends the call; otherwise the items are returned
Returned(list) ==
    IF \E k \in 1..Len(list) : \E f \in DOMAIN list[k] : list[k][f] = TypeError
    THEN TypeError ELSE Arr(list)

\* Table that ends the text with a newline
Table_TrailingNewline(headers, rows) ==
    <<BOM>> \o Join(<<Join(headers, <<COMMA>>)>> \o rows, <<NL>>) \o <<NL>>

\* a table without the header line
Table_NoHeader(headers, rows) == <<BOM>> \o Join(rows, <<NL>>)

\* [headers.join(','), ...rows].join('\n') behind the byte-order mark
Table(headers, rows) == <<BOM>> \o Join(<<Join(headers, <<COMMA>>)>> \o rows, <<NL>>)

\* [values].map(escapeCSV).join(',')
RowOf(values) == Join([k \in 1..Len(values) |-> escapeCSV(values[k])], <<COMMA>>)

----------------------------------------------------------------------------
(* Literals *)

VisitedEN == <<"V", "i", "s", "i", "t", "e", "d">>
VisitedZH == <<"U+53BB", "U+904E">>
VisitedJA == <<"U+884C", "U+3063", "U+305F">>
WantToGo == <<"W", "a", "n", "t", SPACE, "t", "o", SPACE, "G", "o">>
Completed == <<"C", "o", "m", "p", "l", "e", "t", "e", "d">>
PlanToWatch == <<"P", "l", "a", "n", SPACE, "t", "o", SPACE, "W", "a", "t", "c", "h">>
Watching == <<"W", "a", "t", "c", "h", "i", "n", "g">>
Anime == <<"A", "n", "i", "m", "e">>

\* enum TravelStatus
WANT_TO_GO == Str(WantToGo)
VISITED == Str(VisitedEN)

JapaneseHeaders ==
    <<<<"I", "D">>,
      <<"W", "o", "r", "d">>,
      <<"R", "e", "a", "d", "i", "n", "g">>,
      <<"M", "e", "a", "n", "i", "n", "g", SPACE, "(", "C", "H", ")">>,
      <<"M", "e", "a", "n", "i", "n", "g", SPACE, "(", "J", "P", ")">>,
      <<"E", "x", "a", "m", "p", "l", "e">>,
      <<"E", "x", "a", "m", "p", "l", "e", SPACE, "T", "r", "a", "n", "s", "l", "a", "t", "i", "o", "n">>,
      <<"A", "d", "d", "e", "d", "A", "t">>>>
TravelHeaders ==
    <<<<"I", "D">>,
      <<"N", "a", "m", "e">>,
      <<"A", "d", "d", "r", "e", "s", "s">>,
      <<"S", "t", "a", "t", "u", "s">>,
      <<"G", "o", "o", "g", "l", "e", "M", "a", "p", "s", "U", "r", "i">>,
      <<"R", "a", "t", "i", "n", "g">>,
      <<"U", "s", "e", "r", "N", "o", "t", "e", "s">>,
      <<"A", "d", "d", "e", "d", "A", "t">>>>
MusicHeaders ==
    <<<<"I", "D">>,
      <<"A", "r", "t", "i", "s", "t">>,
      <<"S", "o", "n", "g">>,
      <<"U", "R", "L">>,
      <<"A", "d", "d", "e", "d", "A", "t">>>>
MediaHeaders ==
    <<<<"I", "D">>,
      <<"T", "y", "p", "e">>,
      <<"T", "i", "t", "l", "e">>,
      <<"S", "t", "a", "t", "u", "s">>,
      <<"L", "i", "n", "k">>,
      <<"R", "a", "t", "i", "n", "g">>,
      <<"N", "o", "t", "e", "s">>,
      <<"A", "d", "d", "e", "d", "A", "t">>>>
ExperienceHeaders ==
    <<<<"I", "D">>,
      <<"T", "i", "t", "l", "e">>,
      <<"C", "o", "m", "p", "a", "n", "y">>,
      <<"P", "e", "r", "i", "o", "d">>,
      <<"D", "e", "s", "c", "r", "i", "p", "t", "i", "o", "n">>,
      <<"T", "a", "g", "s">>>>
DiaryHeaders ==
    <<<<"I", "D">>,
      <<"D", "a", "t", "e">>,
      <<"C", "o", "n", "t", "e", "n", "t">>,
      <<"M", "o", "o", "d">>,
      <<"I", "m", "a", "g", "e", "s", "(", "B", "a", "s", "e", "6", "4", SEMI, ")">>,
      <<"A", "d", "d", "e", "d", "A", "t">>>>

----------------------------------------------------------------------------
(* Schema adapters.  generateXCSV(items): items is a sequence of records;  *)
(* parseXCSV(csvText, clk) returns Arr(items) or TypeError (a throw).      *)

\* --- JAPANESE SECTION ---
generateJapaneseCSV(list) ==
    Table(JapaneseHeaders,
          [k \in 1..Len(list) |->
              RowOf(<<list[k].id, list[k].word, list[k].reading, list[k].meaning,
                      list[k].meaningJP, list[k].exampleSentence,
                      list[k].exampleTranslation, list[k].addedAt>>)])

JapaneseMinCols == 7

parseJapaneseCSV(csvText, clk) ==
    LET lines == Lines(csvText)
        Cols(i) == parseCSVLine(lines[i + 1])
        Kept(i) == ~(Len(Cols(i)) < JapaneseMinCols)
        Item(i) == LET cols == Cols(i) IN
            [id |-> IdOf(cols, i, clk),
             word |-> Col(cols, 1), reading |-> Col(cols, 2), meaning |-> Col(cols, 3),
             meaningJP |-> Col(cols, 4), exampleSentence |-> Col(cols, 5),
             exampleTranslation |-> Col(cols, 6),
             addedAt |-> AddedAtOf(cols, 7, i, clk)]
        kept == SelectSeq(RowIndices(lines), Kept)
    IN Returned([k \in 1..Len(kept) |-> Item(kept[k])])

\* --- TRAVEL SECTION ---
generateTravelCSV(list) ==
    Table(TravelHeaders,
          [k \in 1..Len(list) |->
              RowOf(<<list[k].id, list[k].name, list[k].address, list[k].status,
                      list[k].googleMapsUri, list[k].rating, list[k].userNotes,
                      list[k].addedAt>>)])

TravelMinCols == 3

\* TravelStatusOf that knows the English literal only
TravelStatusOf_EnglishOnly(cell) == IF cell = Str(VisitedEN) THEN VISITED ELSE WANT_TO_GO

\* the status expression of parseTravelCSV
TravelStatusOf(cell) ==
    IF cell = Str(VisitedEN) \/ cell = Str(VisitedZH) \/ cell = Str(VisitedJA)
    THEN VISITED ELSE WANT_TO_GO

parseTravelCSV(csvText, clk) ==
    LET lines == Lines(csvText)
        Cols(i) == parseCSVLine(lines[i + 1])
        Kept(i) == ~(Len(Cols(i)) < TravelMinCols)
        Item(i) == LET cols == Cols(i) IN
            [id |-> IdOf(cols, i, clk),
             name |-> Col(cols, 1), address |-> Col(cols, 2),
             status |-> TravelStatusOf(Col(cols, 3)),
             googleMapsUri |-> Col(cols, 4),
             rating |-> IF Truthy(Col(cols, 5)) THEN Number(Col(cols, 5)) ELSE Undefined,
             userNotes |-> Col(cols, 6),
             addedAt |-> AddedAtOf(cols, 7, i, clk)]
        kept == SelectSeq(RowIndices(lines), Kept)
    IN Returned([k \in 1..Len(kept) |-> Item(kept[k])])

\* generateMusicCSV whose output depends on when it is called
generateMusicCSV_Stateful(list) ==
    Table(MusicHeaders,
          [k \in 1..Len(list) |->
              RowOf(<<list[k].id, list[k].artist, list[k].song, list[k].url,
                      IF phase = "records" THEN list[k].addedAt ELSE Num(0)>>)])

\* --- MUSIC SECTION ---
generateMusicCSV(list) ==
    Table(MusicHeaders,
          [k \in 1..Len(list) |->
              RowOf(<<list[k].id, list[k].artist, list[k].song, list[k].url,
                      list[k].addedAt>>)])

MusicMinCols == 3

\* parseMusicCSV that reads rows only behind the header row of the export
parseMusicCSV_ChecksHeader(csvText, clk) ==
    LET lines == Lines(csvText)
        Cols(i) == parseCSVLine(lines[i + 1])
        Kept(i) == ~(Len(Cols(i)) < MusicMinCols) /\ lines[1] = Join(MusicHeaders, <<COMMA>>)
        Item(i) == LET cols == Cols(i) IN
            [id |-> IdOf(cols, i, clk),
             artist |-> Col(cols, 1), song |-> Col(cols, 2), url |-> Col(cols, 3),
             addedAt |-> AddedAtOf(cols, 4, i, clk)]
        kept == SelectSeq(RowIndices(lines), Kept)
    IN Returned([k \in 1..Len(kept) |-> Item(kept[k])])

parseMusicCSV(csvText, clk) ==
    LET lines == Lines(csvText)
        Cols(i) == parseCSVLine(lines[i + 1])
        Kept(i) == ~(Len(Cols(i)) < MusicMinCols)
        Item(i) == LET cols == Cols(i) IN
            [id |-> IdOf(cols, i, clk),
             artist |-> Col(cols, 1), song |-> Col(cols, 2), url |-> Col(cols, 3),
             addedAt |-> AddedAtOf(cols, 4, i, clk)]
        kept == SelectSeq(RowIndices(lines), Kept)
    IN Returned([k \in 1..Len(kept) |-> Item(kept[k])])

\* --- ENTERTAINMENT SECTION ---
generateMediaCSV(list) ==
    Table(MediaHeaders,
          [k \in 1..Len(list) |->
              RowOf(<<list[k].id, list[k].type, list[k].title, list[k].status,
                      list[k].link, list[k].rating, list[k].notes, list[k].addedAt>>)])

MediaMinCols == 4

\* the status expression of parseMediaCSV
MediaStatusOf(statusStr) ==
    IF statusStr = Str(Completed) THEN Str(Completed)
    ELSE IF statusStr = Str(PlanToWatch) THEN Str(PlanToWatch)
    ELSE Str(Watching)

parseMediaCSV(csvText, clk) ==
    LET lines == Lines(csvText)
        Cols(i) == parseCSVLine(lines[i + 1])
        Kept(i) == ~(Len(Cols(i)) < MediaMinCols)
        Item(i) == LET cols == Cols(i) IN
            [id |-> IdOf(cols, i, clk),
             type |-> Col(cols, 1),
             title |-> Col(cols, 2),
             status |-> MediaStatusOf(Col(cols, 3)),
             link |-> Col(cols, 4),
             rating |-> Or(Number(Col(cols, 5)), Undefined),
             notes |-> Col(cols, 6),
             addedAt |-> AddedAtOf(cols, 7, i, clk)]
        kept == SelectSeq(RowIndices(lines), Kept)
    IN Returned([k \in 1..Len(kept) |-> Item(kept[k])])

\* --- EXPERIENCE SECTION ---
generateExperienceCSV(list) ==
    Table(ExperienceHeaders,
          [k \in 1..Len(list) |->
              RowOf(<<list[k].id, list[k].title, list[k].company, list[k].period,
                      list[k].description, Str(Join(list[k].tags.a, <<SEMI>>))>>)])

ExperienceMinCols == 5

\* TagsOf without the test of cols[5]
TagsOf_Unguarded(cell) == MapTrim(MethodSplit(cell, <<SEMI>>))

\* cols[5] ? cols[5].split(';').map(t => t.trim()) : []
TagsOf(cell) == IF Truthy(cell) THEN MapTrim(MethodSplit(cell, <<SEMI>>)) ELSE Arr(<<>>)

\* parseExperienceCSV with the column test off by one (<= for <)
parseExperienceCSV_OffByOne(csvText, clk) ==
    LET lines == Lines(csvText)
        Cols(i) == parseCSVLine(lines[i + 1])
        Kept(i) == ~(Len(Cols(i)) <= ExperienceMinCols)
        Item(i) == LET cols == Cols(i) IN
            [id |-> IdOf(cols, i, clk),
             title |-> Col(cols, 1), company |-> Col(cols, 2), period |-> Col(cols, 3),
             description |-> Col(cols, 4),
             tags |-> TagsOf(Col(cols, 5))]
        kept == SelectSeq(RowIndices(lines), Kept)
    IN Returned([k \in 1..Len(kept) |-> Item(kept[k])])

parseExperienceCSV(csvText, clk) ==
    LET lines == Lines(csvText)
        Cols(i) == parseCSVLine(lines[i + 1])
        Kept(i) == ~(Len(Cols(i)) < ExperienceMinCols)
        Item(i) == LET cols == Cols(i) IN
            [id |-> IdOf(cols, i, clk),
             title |-> Col(cols, 1), company |-> Col(cols, 2), period |-> Col(cols, 3),
             description |-> Col(cols, 4),
             tags |-> TagsOf(Col(cols, 5))]
        kept == SelectSeq(RowIndices(lines), Kept)
    IN Returned([k \in 1..Len(kept) |-> Item(kept[k])])

\* --- DIARY SECTION ---
generateDiaryCSV(list) ==
    Table(DiaryHeaders,
          [k \in 1..Len(list) |->
              RowOf(<<list[k].id, list[k].date, list[k].content, list[k].mood,
                      Str(Join(list[k].images.a, <<SEMI, SEMI, SEMI>>)), list[k].addedAt>>)])

DiaryMinCols == 3

\* cols[4] ? cols[4].split(';;;') : []
ImagesOf(cell) == IF Truthy(cell) THEN MethodSplit(cell, <<SEMI, SEMI, SEMI>>) ELSE Arr(<<>>)

parseDiaryCSV(csvText, clk) ==
    LET lines == Lines(csvText)
        Cols(i) == parseCSVLine(lines[i + 1])
        Kept(i) == ~(Len(Cols(i)) < DiaryMinCols)
        Item(i) == LET cols == Cols(i) IN
            [id |-> IdOf(cols, i, clk),
             date |-> Col(cols, 1),
             content |-> Col(cols, 2),
             mood |-> Col(cols, 3),
             images |-> ImagesOf(Col(cols, 4)),
             addedAt |-> AddedAtOf(cols, 5, i, clk)]
        kept == SelectSeq(RowIndices(lines), Kept)
    IN Returned([k \in 1..Len(kept) |-> Item(kept[k])])

\* The six record kinds and the adapter of each
Kinds == {"Vocabulary", "TravelSpot", "Song", "MediaItem", "ExperienceItem", "DiaryEntry"}

Generate(k, list) ==
    CASE k = "Vocabulary"     -> generateJapaneseCSV(list)
      [] k = "TravelSpot"     -> generateTravelCSV(list)
      [] k = "Song"           -> generateMusicCSV(list)
      [] k = "MediaItem"      -> generateMediaCSV(list)
      [] k = "ExperienceItem" -> generateExperienceCSV(list)
      [] k = "DiaryEntry"     -> generateDiaryCSV(list)

Parse(k, csvText, clk) ==
    CASE k = "Vocabulary"     -> parseJapaneseCSV(csvText, clk)
      [] k = "TravelSpot"     -> parseTravelCSV(csvText, clk)
      [] k = "Song"           -> parseMusicCSV(csvText, clk)
      [] k = "MediaItem"      -> parseMediaCSV(csvText, clk)
      [] k = "ExperienceItem" -> parseExperienceCSV(csvText, clk)
      [] k = "DiaryEntry"     -> parseDiaryCSV(csvText, clk)

MinCols(k) ==
    CASE k = "Vocabulary"     -> JapaneseMinCols
      [] k = "TravelSpot"     -> TravelMinCols
      [] k = "Song"           -> MusicMinCols
      [] k = "MediaItem"      -> MediaMinCols
      [] k = "ExperienceItem" -> ExperienceMinCols
      [] k = "DiaryEntry"     -> DiaryMinCols

----------------------------------------------------------------------------
(* Inputs of the CSV engine run *)

MaxCells == 3
MaxChars == 3

NoUpload == [lines |-> <<>>, eol |-> <<NL>>]

\* the profiles: DEFAULT_USER and one profile added earlier
DefaultUser == "default"
Profiles == {DefaultUser, "p2"}

\* localStorage.getItem returns null for a key never written
NoStorage == [p \in Profiles |-> Null]
\* the load effect has not run
NoLoad == [saved |-> Null, closure |-> <<>>, fetched |-> FALSE]

\* the profile list of a fresh UserProvider, nothing saved by it, no second
\* tab, no effect waiting
Tabs == {1, 2}
NoRegistry == [users |-> Null, current |-> Null]
NoTabs == [t \in Tabs |-> [mounted |-> FALSE, items |-> <<>>]]
NoPending == [effects |-> <<>>, queued |-> Undefined]

NoApp ==
    /\ users = <<DefaultUser>> /\ registry = NoRegistry /\ tabs = NoTabs
    /\ pending = NoPending

\* no section is mounted during an engine or adapter run
NoSection ==
    /\ NoApp
    /\ items = <<>> /\ reading = {} /\ prev = <<>> /\ now = 0 /\ generating = Undefined
    /\ user = DefaultUser /\ mounted = FALSE /\ storage = NoStorage /\ fetching = 0
    /\ load = NoLoad

CsvChars == {"a", COMMA, QUOTE, NL}

RECURSIVE StrsOfLen(_, _)
StrsOfLen(A, n) ==
    IF n = 0 THEN {<<>>}
    ELSE {Append(s, c) : s \in StrsOfLen(A, n - 1), c \in A}

StrsUpTo(A, n) == UNION {StrsOfLen(A, k) : k \in 0..n}

RECURSIVE CellSeqs(_, _)
\* the sequences of exactly k strings over CsvChars with at most n characters in all
CellSeqs(k, n) ==
    IF k = 0 THEN {<<>>}
    ELSE UNION {{<<s>> \o r : r \in CellSeqs(k - 1, n - Len(s))} : s \in StrsUpTo(CsvChars, n)}

StringCells == UNION {CellSeqs(k, MaxChars) : k \in 0..MaxCells}
ToValues(ss) == [k \in 1..Len(ss) |-> Str(ss[k])]
OtherValues == {Undefined, Null, Num(0), Num(7), Num(120), NaN}

CsvInit ==
    /\ phase = "cells"
    /\ cells \in {ToValues(ss) : ss \in StringCells} \cup {<<v>> : v \in OtherValues}
    /\ escaped = <<>>
    /\ line = <<>>
    /\ fields = <<>>
    /\ kind = "none" /\ recs = <<>> /\ upload = NoUpload /\ text = <<>>
    /\ out = Undefined /\ clock = <<>>
    /\ NoSection

\* row.map(escapeCSV)
EscapeCells ==
    /\ phase = "cells"
    /\ escaped' = [k \in 1..Len(cells) |-> escapeCSV(cells[k])]
    /\ phase' = "escaped"
    /\ UNCHANGED <<appVars, cells, line, fields, adapterVars, sectionVars, loadVars>>

\* .join(',')
JoinCells ==
    /\ phase = "escaped"
    /\ line' = Join(escaped, <<COMMA>>)
    /\ phase' = "joined"
    /\ UNCHANGED <<appVars, cells, escaped, fields, adapterVars, sectionVars, loadVars>>

ParseLine ==
    /\ phase = "joined"
    /\ fields' = parseCSVLine(line)
    /\ phase' = "scanned"
    /\ UNCHANGED <<appVars, cells, escaped, line, adapterVars, sectionVars, loadVars>>

CsvNext == EscapeCells \/ JoinCells \/ ParseLine

SpecCsv == CsvInit /\ [][CsvNext]_vars

----------------------------------------------------------------------------
(* Inputs of the adapter run *)

MaxRecs == 2
MaxRows == 2
T0 == 7

\* Date.now() never goes back: the non-decreasing clocks over two instants
Times == {T0, T0 + 1}
\* the clocks of a parse call whose loop runs over n rows
Clocks(n) == {c \in [1..(2 * n) -> Times] : \A k \in 1..(2 * n - 1) : c[k] <= c[k + 1]}

\* lines.length - 1, the number of rows the loop of parse visits
RowCount(csvText) == IF Lines(csvText) = <<>> THEN 0 ELSE Len(Lines(csvText)) - 1

A == <<"a">>
\* a single-line text with a comma and a double quote: b,"
CommaQuote == <<"b", COMMA, QUOTE>>
\* a two-line text, as a textarea or the AI service returns
TwoLines == <<"c", NL, "d">>
\* a two-line text whose second line has two commas
LineOfThree == <<"c", NL, "d", COMMA, "e", COMMA, "f">>
\* a data URL, as FileReader.readAsDataURL returns
Image1 == <<"d", "a", "t", "a", ":", SEMI, "b", "a", "s", "e", "6", "4", COMMA, "Q", "Q", "=", "=">>
Image2 == <<"d", "a", "t", "a", ":", SEMI, "b", "a", "s", "e", "6", "4", COMMA, "/", "+", "8", "=">>

RecordIds == {<<Digit(k)>> : k \in 1..MaxRecs}

\* The records a section can hold, by kind.  Ids are non-empty and addedAt
\* positive, as every handler that creates a record makes them.
Records(k) ==
    CASE k = "Vocabulary" ->
            {[id |-> Str(i), word |-> Str(<<"w">>), reading |-> Str(<<"r">>), meaning |-> Str(m),
              meaningJP |-> Str(<<"j">>), exampleSentence |-> Str(e),
              exampleTranslation |-> Str(<<"t">>), addedAt |-> Num(5)] :
                i \in RecordIds, m \in {A, CommaQuote}, e \in {A, TwoLines}}
      [] k = "TravelSpot" ->
            {[id |-> Str(i), name |-> Str(<<"n">>), address |-> Str(A), status |-> st,
              googleMapsUri |-> o[1], rating |-> o[2], userNotes |-> o[3], addedAt |-> Num(5)] :
                i \in RecordIds, st \in {WANT_TO_GO, VISITED},
                o \in {<<Undefined, Undefined, Undefined>>, <<Str(<<"u">>), Num(4), Str(CommaQuote)>>}}
      [] k = "Song" ->
            {[id |-> Str(i), artist |-> Str(a), song |-> Str(<<"s">>), url |-> Str(u),
              addedAt |-> Num(5)] :
                i \in RecordIds, a \in {A, CommaQuote}, u \in {<<>>, <<"u">>}}
      [] k = "MediaItem" ->
            {[id |-> Str(i), type |-> Str(Anime), title |-> Str(A), status |-> Str(st),
              link |-> o[1], rating |-> o[2], notes |-> o[3], addedAt |-> Num(5)] :
                i \in RecordIds, st \in {Watching, Completed},
                o \in {<<Str(<<>>), Undefined, Undefined>>, <<Str(<<"u">>), Num(4), Str(CommaQuote)>>}}
      [] k = "ExperienceItem" ->
            {[id |-> Str(i), title |-> Str(<<"t">>), company |-> Str(<<"c">>), period |-> Str(<<"p">>),
              description |-> Str(d), tags |-> Arr(tg)] :
                i \in RecordIds, d \in {CommaQuote, TwoLines},
                tg \in {<<>>, <<<<"g", "o">>, <<"r", "u", "s", "t">>>>, <<<<"a", SEMI, "b">>>>}}
      [] k = "DiaryEntry" ->
            {[id |-> Str(i), date |-> Str(<<"d">>), content |-> Str(c), mood |-> Str(<<>>),
              images |-> Arr(im), addedAt |-> Num(5)] :
                i \in RecordIds, c \in {CommaQuote, TwoLines, LineOfThree},
                im \in {<<>>, <<Image1>>, <<Image1, Image2>>}}

\* the record lists of at most MaxRecs records with pairwise different ids
RecordLists(k) ==
    {l \in UNION {[1..n -> Records(k)] : n \in 0..MaxRecs} :
        \A x, y \in 1..Len(l) : x # y => l[x].id # l[y].id}

\* The lines an uploaded file is made of, by kind: a blank line, a row one
\* column short of the adapter's minimum, and rows with a missing id, missing
\* trailing cells, quoted cells, an unterminated quote and the enum literals.
Blank == <<SPACE>>
Cells(row) == Join(row, <<COMMA>>)
Quoted(s) == <<QUOTE>> \o DoubleQuotes(s) \o <<QUOTE>>

Rows(k) ==
    CASE k = "Vocabulary" ->
            {Blank,
             Cells(<<<<"1">>, <<"w">>, <<"r">>, <<"m">>, <<"j">>, <<"e">>, <<"t">>, <<"9">>>>),
             Cells(<<<<>>, <<"w">>, <<"r">>, <<"m">>, <<"j">>, <<"e">>, <<"t">>>>),
             Cells(<<<<"2">>, <<"v">>, <<"r">>, Quoted(CommaQuote), <<"j">>, <<"e">>, <<"t">>, <<"x">>>>),
             Cells(<<<<"3">>, <<"w">>, <<"r">>, <<"m">>, <<"j">>, <<"e">>>>),
             Cells(<<<<"4">>, <<"w">>, <<"r">>, <<"m">>, <<"j">>, <<"e">>, <<QUOTE, "t">>>>)}
      [] k = "TravelSpot" ->
            {Blank,
             Cells(<<<<"1">>, <<"n">>, <<"a">>, VisitedEN, <<"u">>, <<"4">>, Quoted(CommaQuote), <<"9">>>>),
             Cells(<<<<>>, <<"n">>, <<"a">>>>),
             Cells(<<<<"2">>, <<"m">>, <<"a">>, VisitedZH, <<>>, <<>>, <<>>, <<"x">>>>),
             Cells(<<<<"3">>, <<"k">>>>),
             Cells(<<<<"4">>, <<"j">>, <<"a">>, VisitedJA, <<QUOTE, "u">>>>),
             Cells(<<<<"5">>, <<"i">>, <<"a">>, <<"u", "n", "k", "n", "o", "w", "n">>>>)}
      [] k = "Song" ->
            {Blank,
             Cells(<<<<"1">>, <<"a">>, <<"s">>, <<"u">>, <<"9">>>>),
             Cells(<<<<>>, <<"a">>, <<"s">>>>),
             Cells(<<<<"2">>, Quoted(CommaQuote), <<"s">>, <<>>, <<"x">>>>),
             Cells(<<<<"3">>, <<"a">>>>),
             Cells(<<<<"4">>, <<"a">>, <<QUOTE, "s">>>>)}
      [] k = "MediaItem" ->
            {Blank,
             Cells(<<<<"1">>, Anime, <<"t">>, Completed, <<"u">>, <<"4">>, Quoted(CommaQuote), <<"9">>>>),
             Cells(<<<<>>, Anime, <<"t">>, PlanToWatch>>),
             Cells(<<<<"2">>, Anime, <<"t">>, <<"u", "n", "k", "n", "o", "w", "n">>, <<>>, <<>>, <<>>, <<"x">>>>),
             Cells(<<<<"3">>, Anime, <<"t">>>>),
             Cells(<<<<"4">>, Anime, <<"t">>, Watching, <<QUOTE, "u">>>>),
             Cells(<<<<"5">>, Anime, <<"t">>, <<>>>>)}
      [] k = "ExperienceItem" ->
            {Blank,
             Cells(<<<<"1">>, <<"t">>, <<"c">>, <<"p">>, <<"d">>, <<"g", "o", SEMI, "r", "u", "s", "t">>>>),
             Cells(<<<<>>, <<"t">>, <<"c">>, <<"p">>, <<"d">>>>),
             Cells(<<<<"2">>, <<"t">>, <<"c">>, <<"p">>, Quoted(CommaQuote), <<>>>>),
             Cells(<<<<"3">>, <<"t">>, <<"c">>, <<"p">>>>),
             Cells(<<<<"4">>, <<"t">>, <<"c">>, <<"p">>, <<"d">>, <<QUOTE, SPACE, "a", SPACE, SEMI, "b">>>>)}
      [] k = "DiaryEntry" ->
            {Blank,
             Cells(<<<<"1">>, <<"d">>, <<"c">>, <<"m">>, <<"i", SEMI, SEMI, SEMI, "j">>, <<"9">>>>),
             Cells(<<<<>>, <<"d">>, <<"c">>>>),
             Cells(<<<<"2">>, <<"d">>, Quoted(CommaQuote), <<>>, <<>>, <<"x">>>>),
             Cells(<<<<"3">>, <<"d">>>>),
             Cells(<<<<"4">>, <<"d">>, <<"c">>, <<"m">>, <<QUOTE, "i">>>>)}

HeaderLine(k) ==
    CASE k = "Vocabulary"     -> Cells(JapaneseHeaders)
      [] k = "TravelSpot"     -> Cells(TravelHeaders)
      [] k = "Song"           -> Cells(MusicHeaders)
      [] k = "MediaItem"      -> Cells(MediaHeaders)
      [] k = "ExperienceItem" -> Cells(ExperienceHeaders)
      [] k = "DiaryEntry"     -> Cells(DiaryHeaders)

\* first lines: the export's header row, or any other non-blank line
FirstLines(k) == {HeaderLine(k), <<"x">>}

LineEnds == {<<NL>>, <<CR, NL>>}

\* The uploaded files: the empty file, and a first line followed by at most
\* MaxRows lines, with either line ending.
Uploads(k) ==
    {NoUpload} \cup
    {[lines |-> <<f>> \o rs, eol |-> eol] :
        f \in FirstLines(k),
        rs \in UNION {[1..n -> Rows(k)] : n \in 0..MaxRows},
        eol \in LineEnds}

\* the text of an uploaded file
FileText(u) == Join(u.lines, u.eol)

\* A round trip starts from a record list, an import from an uploaded file.
RoundTripInit ==
    /\ kind \in Kinds
    /\ phase = "records" /\ recs \in RecordLists(kind)
    /\ upload = NoUpload /\ text = <<>>
    /\ out = Undefined
    /\ clock = <<>>
    /\ cells = <<>> /\ escaped = <<>> /\ line = <<>> /\ fields = <<>>
    /\ NoSection

UploadInit ==
    /\ kind \in Kinds
    /\ phase = "uploaded" /\ recs = <<>>
    /\ upload \in Uploads(kind) /\ text = FileText(upload)
    /\ out = Undefined
    /\ clock = <<>>
    /\ cells = <<>> /\ escaped = <<>> /\ line = <<>> /\ fields = <<>>
    /\ NoSection

\* handleExportCSV: generate(items)
GenerateCSV ==
    /\ phase = "records"
    /\ text' = Generate(kind, recs)
    /\ phase' = "generated"
    /\ UNCHANGED <<appVars, kind, recs, upload, out, clock, csvVars, sectionVars, loadVars>>

\* parse(text) of the generated text
ParseGenerated ==
    /\ phase = "generated"
    /\ \E clk \in Clocks(RowCount(text)) :
        /\ clock' = clk
        /\ out' = Parse(kind, text, clk)
    /\ phase' = "roundtrip"
    /\ UNCHANGED <<appVars, kind, recs, upload, text, csvVars, sectionVars, loadVars>>

\* parse(text) of an uploaded file
ParseUpload ==
    /\ phase = "uploaded"
    /\ \E clk \in Clocks(RowCount(text)) :
        /\ clock' = clk
        /\ out' = Parse(kind, text, clk)
    /\ phase' = "parsed"
    /\ UNCHANGED <<appVars, kind, recs, upload, text, csvVars, sectionVars, loadVars>>

RoundTripNext == GenerateCSV \/ ParseGenerated

SpecRoundTrip == RoundTripInit /\ [][RoundTripNext]_vars

SpecUpload == UploadInit /\ [][ParseUpload]_vars

----------------------------------------------------------------------------
(* Properties of the CSV primitive engine (SpecCsv) *)

AllStrings(vs) == \A k \in 1..Len(vs) : IsStr(vs[k])
StringsOf(vs) == [k \in 1..Len(vs) |-> vs[k].s]

\* C2 as stated: for every finite sequence of cell strings, parseCSVLine of
\* the escaped cells joined with ',' returns exactly the original sequence.
C2_RoundTripAnyCells ==
    (phase = "scanned" /\ AllStrings(cells)) => fields = StringsOf(cells)

\* C2 as amended: for every non-empty finite sequence of cell strings,
\* parseCSVLine of the escaped cells joined with ',' returns exactly the
\* original sequence, with the same length and the same content per cell.
C2_RoundTripNonEmptyCells ==
    (phase = "scanned" /\ AllStrings(cells) /\ cells # <<>>) => fields = StringsOf(cells)

\* a two-cell line whose first cell holds a comma, a quote and a newline
C2_Witness ==
    /\ phase = "scanned"
    /\ cells = <<Str(<<COMMA, QUOTE, NL>>), Str(<<>>)>>
    /\ line = <<QUOTE, COMMA, QUOTE, QUOTE, NL, QUOTE, COMMA>>
    /\ fields = <<<<COMMA, QUOTE, NL>>, <<>>>>

\* what the contract of escapeCSV says of value v and its cell e
EscapedAsSpecified(v, e) ==
    IF v = Undefined \/ v = Null THEN e = <<>>
    ELSE LET s == String(v)
             special == \E p \in 1..Len(s) : s[p] \in {COMMA, QUOTE, NL}
             QuotesBefore(p) == Cardinality({j \in 1..(p - 1) : s[j] = QUOTE})
             \* where character p of s stands in e, behind the opening quote
             \* and one extra quote for every quote before it
             At(p) == 1 + p + QuotesBefore(p)
         IN IF special
            THEN /\ Len(e) = Len(s) + QuotesBefore(Len(s) + 1) + 2
                 /\ e[1] = QUOTE /\ e[Len(e)] = QUOTE
                 /\ \A p \in 1..Len(s) :
                        /\ e[At(p)] = s[p]
                        /\ s[p] = QUOTE => e[At(p) + 1] = QUOTE
            ELSE e = s

\* C3: escapeCSV maps undefined and null to the empty string; any other
\* value is stringified and, exactly when the string holds a comma, a double
\* quote or a newline, wrapped in double quotes with every internal double
\* quote doubled; otherwise it is returned unchanged.
C3_EscapeContract ==
    phase \in {"escaped", "joined", "scanned"} =>
        /\ Len(escaped) = Len(cells)
        /\ \A k \in 1..Len(cells) : EscapedAsSpecified(cells[k], escaped[k])
        /\ cells = <<Num(120)>> => escaped = <<<<"1", "2", "0">>>>

\* a string with a quote and a comma, and its escaped cell
C3_Witness ==
    /\ phase = "escaped"
    /\ cells = <<Str(<<"a", QUOTE, COMMA>>)>>
    /\ escaped = <<<<QUOTE, "a", QUOTE, QUOTE, COMMA, QUOTE>>>>

----------------------------------------------------------------------------
(* Properties of the adapters on generated texts (SpecRoundTrip) *)

\* C1: for each adapter and every record list, parse(generate(records)) is a
\* list equal to records, in the same order and in every field.
C1_RoundTripAllFields ==
    phase = "roundtrip" => out = Arr(recs)

HasLineBreak(rec) == \E f \in DOMAIN rec : IsStr(rec[f]) /\ Includes(rec[f].s, NL)

\* C6, for the record lists none of whose fields holds a line break: the tags
\* of every ExperienceItem are read back as the same list in the same order.
C6_TagsRoundTrip ==
    (/\ phase = "roundtrip" /\ kind = "ExperienceItem"
     /\ \A k \in 1..Len(recs) : ~HasLineBreak(recs[k]))
    => /\ out.t = "array"
       /\ Len(out.a) = Len(recs)
       /\ \A k \in 1..Len(recs) : out.a[k].tags = recs[k].tags

\* C7: for every DiaryEntry whose images are data URLs, generateDiaryCSV
\* followed by parseDiaryCSV returns the same images list.
C7_ImagesRoundTrip ==
    (phase = "roundtrip" /\ kind = "DiaryEntry")
    => /\ out.t = "array"
       /\ Len(out.a) = Len(recs)
       /\ \A k \in 1..Len(recs) : out.a[k].images = recs[k].images

----------------------------------------------------------------------------
(* Properties of the adapters on uploaded files (SpecUpload) *)

\* the lines of the uploaded file behind its first line
DataRows == IF upload.lines = <<>> THEN <<>> ELSE Tail(upload.lines)

IsAccepted(row) == row # Blank /\ Len(parseCSVLine(row)) >= MinCols(kind)
IsTooShort(row) == row # Blank /\ Len(parseCSVLine(row)) < MinCols(kind)

\* the rows that have the adapter's minimum column count, in file order
AcceptedRows == SelectSeq(DataRows, IsAccepted)

\* the positions in DataRows of the accepted rows, in file order
Positions == [j \in 1..Len(DataRows) |-> j]
IsAcceptedAt(j) == IsAccepted(DataRows[j])
AcceptedAt == SelectSeq(Positions, IsAcceptedAt)

\* the value of the loop variable i at the row DataRows[j]: its index among
\* the lines that are not blank, the first line having index 0
LoopIndex(j) == Cardinality({m \in 1..j : DataRows[m] # Blank})

\* the fields read from columns 1 and 2, by kind
Column1(rec) ==
    CASE kind = "Vocabulary"     -> rec.word
      [] kind = "TravelSpot"     -> rec.name
      [] kind = "Song"           -> rec.artist
      [] kind = "MediaItem"      -> rec.type
      [] kind = "ExperienceItem" -> rec.title
      [] kind = "DiaryEntry"     -> rec.date
Column2(rec) ==
    CASE kind = "Vocabulary"     -> rec.reading
      [] kind = "TravelSpot"     -> rec.address
      [] kind = "Song"           -> rec.song
      [] kind = "MediaItem"      -> rec.title
      [] kind = "ExperienceItem" -> rec.company
      [] kind = "DiaryEntry"     -> rec.content

\* parse returns one record per accepted row and none for any other line, in
\* file order: record k holds the cells of the k-th accepted row
OneRecordPerAcceptedRow ==
    LET at == AcceptedAt IN
    /\ out.t = "array"
    /\ Len(out.a) = Len(at)
    /\ \A k \in 1..Len(at) :
        LET cols == parseCSVLine(DataRows[at[k]])
            i == LoopIndex(at[k])
        IN /\ Column1(out.a[k]) = Str(cols[2])
           /\ Column2(out.a[k]) = Str(cols[3])
           /\ out.a[k].id =
                IF cols[1] # <<>> THEN Str(cols[1])
                ELSE Str(DecimalOf(clock[2 * i - 1]) \o DecimalOf(i))

\* the uploaded file without its too-short rows, and the clock that shows every
\* remaining row the instants it saw in the original call
IsNotTooShort(row) == ~IsTooShort(row)
WithoutShortRows ==
    [lines |-> <<Head(upload.lines)>> \o SelectSeq(DataRows, IsNotTooShort), eol |-> upload.eol]
ClockWithoutShortRows ==
    LET at == AcceptedAt IN
    [s \in 1..(2 * Len(at)) |-> clock[2 * LoopIndex(at[(s + 1) \div 2]) - (s % 2)]]
ParsedWithoutShortRows == Parse(kind, FileText(WithoutShortRows), ClockWithoutShortRows)

NoId(rec) == [rec EXCEPT !.id = Str(<<>>)]

\* C4 as stated: one record per line with the minimum column count, none for
\* a shorter line, in line order; and removing the too-short rows from the
\* file leaves the records parse returns unchanged.
C4_ShortRowsChangeNothing ==
    (phase = "parsed" /\ upload.lines # <<>>) =>
        /\ OneRecordPerAcceptedRow
        /\ ParsedWithoutShortRows = out

\* C4 as amended: one record per line with the minimum column count, none for
\* a shorter line, in line order; removing the too-short rows from the file
\* leaves every field of every record unchanged except an id synthesized for an
\* empty id cell, which ends in the row's index among the non-blank lines of
\* the file, too-short rows counted.
C4_ShortRowsChangeOnlySynthesizedIds ==
    (phase = "parsed" /\ upload.lines # <<>>) =>
        /\ OneRecordPerAcceptedRow
        /\ LET without == ParsedWithoutShortRows
               at == AcceptedAt
           IN /\ without.t = "array"
              /\ Len(without.a) = Len(out.a)
              /\ \A k \in 1..Len(out.a) :
                  /\ NoId(without.a[k]) = NoId(out.a[k])
                  /\ parseCSVLine(DataRows[at[k]])[1] # <<>> => without.a[k].id = out.a[k].id

\* an experience file whose too-short row stands before a well-formed row
C4_Witness ==
    /\ phase = "parsed" /\ kind = "ExperienceItem"
    /\ Len(DataRows) = 2
    /\ IsTooShort(DataRows[1]) /\ Len(parseCSVLine(DataRows[1])) = 4
    /\ IsAccepted(DataRows[2]) /\ Len(parseCSVLine(DataRows[2])) = 5
    /\ Len(out.a) = 1 /\ out.a[1].title = Str(<<"t">>)

\* C5: for every input text each adapter's parse returns a possibly empty
\* list of records and never throws.
C5_ParseNeverThrows ==
    phase = "parsed" => out.t = "array"

\* an ExperienceItem row of five columns, the tags cell missing, parsed
C5_Witness ==
    /\ phase = "parsed" /\ kind = "ExperienceItem"
    /\ \E j \in 1..Len(DataRows) : Len(parseCSVLine(DataRows[j])) = 5
    /\ out.t = "array" /\ out.a # <<>>
    /\ \E k \in 1..Len(out.a) : out.a[k].tags = Arr(<<>>)

\* the status cell of the k-th accepted row
StatusCell(k) == Col(parseCSVLine(AcceptedRows[k]), 3)

\* C8: parseTravelCSV sets status to VISITED exactly when the status cell is
\* 'Visited', '去過' or '行った' and to WANT_TO_GO otherwise (a missing cell and
\* 'unknown' included); parseMediaCSV sets status to 'Completed' or 'Plan to
\* Watch' exactly when the cell is that literal and to 'Watching' otherwise.
C8_EnumAllowList ==
    (phase = "parsed" /\ kind \in {"TravelSpot", "MediaItem"}) =>
        /\ out.t = "array"
        /\ Len(out.a) = Len(AcceptedRows)
        /\ \A k \in 1..Len(AcceptedRows) :
            IF kind = "TravelSpot"
            THEN IF StatusCell(k) \in {Str(VisitedEN), Str(VisitedZH), Str(VisitedJA)}
                 THEN out.a[k].status = Str(VisitedEN)
                 ELSE out.a[k].status = Str(WantToGo)
            ELSE IF StatusCell(k) \in {Str(Completed), Str(PlanToWatch)}
                 THEN out.a[k].status = StatusCell(k)
                 ELSE out.a[k].status = Str(Watching)

\* a travel file with a '行った' row and a row without a status cell
C8_Witness ==
    /\ phase = "parsed" /\ kind = "TravelSpot"
    /\ Len(AcceptedRows) = 2
    /\ StatusCell(1) = Str(VisitedJA) /\ out.a[1].status = VISITED
    /\ StatusCell(2) = Undefined /\ out.a[2].status = WANT_TO_GO

----------------------------------------------------------------------------
(* The record-list sections.  One section of kind `kind` is mounted; its   *)
(* list is the React state `items`.  Each handler is one action; a state   *)
(* update through setItems(prev => ...) is applied to the current list.    *)

MaxItems == 2
MaxReads == 2

\* the last instant of the run
MaxNow == T0 + 1

KeyN == <<"n">>
KeyM == <<"m">>

\* A record of kind k as the section's form handler builds it; key is what
\* the user typed into the form's first text field.  A property the handler
\* does not set is undefined.
ItemWith(k, id, key, addedAt) ==
    CASE k = "Vocabulary" ->
            [id |-> id, word |-> Str(key), reading |-> Str(<<"r">>), meaning |-> Str(<<"m">>),
             meaningJP |-> Str(<<"j">>), exampleSentence |-> Str(<<"e">>),
             exampleTranslation |-> Str(<<"t">>), addedAt |-> addedAt]
      [] k = "TravelSpot" ->
            [id |-> id, name |-> Str(key), address |-> Str(A), status |-> WANT_TO_GO,
             googleMapsUri |-> Str(<<"u">>), rating |-> Undefined, userNotes |-> Undefined,
             addedAt |-> addedAt]
      [] k = "Song" ->
            [id |-> id, artist |-> Str(key), song |-> Str(<<"s">>), url |-> Str(<<>>),
             addedAt |-> addedAt]
      [] k = "MediaItem" ->
            [id |-> id, type |-> Str(Anime), title |-> Str(key), status |-> Str(Watching),
             link |-> Str(<<>>), rating |-> Undefined, notes |-> Undefined, addedAt |-> addedAt]
      [] k = "ExperienceItem" ->
            [id |-> id, title |-> Str(key), company |-> Str(<<"c">>), period |-> Str(<<"p">>),
             description |-> Str(<<"d">>), tags |-> Arr(<<>>)]
      [] k = "DiaryEntry" ->
            [id |-> id, date |-> Str(key), content |-> Str(<<"c">>), mood |-> Str(<<>>),
             images |-> Arr(<<>>), addedAt |-> addedAt]

\* id: Date.now().toString(), ..., addedAt: Date.now()
NewItem(k, key) == ItemWith(k, Str(String(Num(now))), key, Num(now))

\* a row with an empty id cell, the key in the second cell and as many
\* cells as the adapter of kind k requires
EmptyIdRow(k, key) == Cells([j \in 1..MinCols(k) |-> IF j = 1 THEN <<>> ELSE IF j = 2 THEN key ELSE <<"x">>])

\* The files a user imports: an export of two records with the keys n and
\* m, an export of the second of them alone, and a file with one row that
\* has no id and the key n.
ImportFiles(k) ==
    {Generate(k, <<ItemWith(k, Str(<<"1">>), KeyN, Num(5)), ItemWith(k, Str(<<"2">>), KeyM, Num(5))>>),
     Generate(k, <<ItemWith(k, Str(<<"2">>), KeyM, Num(5))>>),
     Join(<<HeaderLine(k), EmptyIdRow(k, KeyN)>>, <<NL>>)}

\* the natural key of a record, by which Vocabulary and TravelSpot imports deduplicate
Words(list) == {list[j].word : j \in 1..Len(list)}
Names(list) == {list[j].name : j \in 1..Len(list)}

JapaneseMerge_NoFilter(newItems, prevItems) == newItems \o prevItems

\* setItems(prev => [...newItems.filter(i => !existingWords.has(i.word)), ...prev])
JapaneseMerge(newItems, prevItems) ==
    LET existingWords == Words(prevItems)
        IsNew(i) == i.word \notin existingWords
    IN SelectSeq(newItems, IsNew) \o prevItems

\* setItems(prev => [...newItems.filter(i => !existingNames.has(i.name)), ...prev])
TravelMerge(newItems, prevItems) ==
    LET existingNames == Names(prevItems)
        IsNew(i) == i.name \notin existingNames
    IN SelectSeq(newItems, IsNew) \o prevItems

MusicMerge_Append(newItems, prevItems) == prevItems \o newItems

\* setItems(prev => [...newItems, ...prev])
MusicMerge(newItems, prevItems) == newItems \o prevItems
MediaMerge(newItems, prevItems) == newItems \o prevItems
ExperienceMerge(newItems, prevItems) == newItems \o prevItems
DiaryMerge(newItems, prevItems) == newItems \o prevItems

\* Merge that commits the first record of the batch only
Merge_FirstOnly(k, newItems, prevItems) ==
    IF newItems = <<>> THEN prevItems ELSE <<newItems[1]>> \o prevItems

\* a merge that keeps the imported records alone
Merge_Replace(k, newItems, prevItems) == newItems

Merge(k, newItems, prevItems) ==
    CASE k = "Vocabulary"     -> JapaneseMerge(newItems, prevItems)
      [] k = "TravelSpot"     -> TravelMerge(newItems, prevItems)
      [] k = "Song"           -> MusicMerge(newItems, prevItems)
      [] k = "MediaItem"      -> MediaMerge(newItems, prevItems)
      [] k = "ExperienceItem" -> ExperienceMerge(newItems, prevItems)
      [] k = "DiaryEntry"     -> DiaryMerge(newItems, prevItems)

\* JSON.parse(JSON.stringify(list)): NaN is written as null, a property that
\* is undefined is left out and reads back as undefined
JsonOf(list) ==
    [j \in 1..Len(list) |->
        [f \in DOMAIN list[j] |-> IF list[j][f] = NaN THEN Null ELSE list[j][f]]]

\* the save effect, which runs after every render that changed the list:
\* localStorage.setItem(storageKey, JSON.stringify(items))
SaveEffect == storage' = [storage EXCEPT ![user] = Arr(JsonOf(items'))]

\* the locals of the last import's callback are gone once another handler runs
Forget == phase' = "idle" /\ out' = Undefined /\ prev' = <<>>

SectionInit ==
    /\ kind \in Kinds
    /\ phase = "idle"
    /\ items = <<>> /\ reading = {} /\ prev = <<>> /\ now = T0 /\ generating = Undefined
    /\ user = DefaultUser /\ mounted = TRUE /\ fetching = 0 /\ load = NoLoad
    /\ storage = [NoStorage EXCEPT ![DefaultUser] = Arr(<<>>)]
    /\ NoApp
    /\ recs = <<>> /\ upload = NoUpload /\ text = <<>> /\ out = Undefined /\ clock = <<>>
    /\ cells = <<>> /\ escaped = <<>> /\ line = <<>> /\ fields = <<>>

\* time passes
Tick ==
    /\ now < MaxNow
    /\ now' = now + 1
    /\ UNCHANGED <<appVars, phase, out, prev, items, reading, generating,
                   kind, recs, upload, text, clock, csvVars, loadVars>>

\* handleSubmit / handleAddSpot: setItems([newItem, ...items])
HandleSubmit ==
    /\ mounted
    /\ kind # "Vocabulary"
    /\ Len(items) < MaxItems
    /\ items' = <<NewItem(kind, KeyN)>> \o items
    /\ Forget
    /\ SaveEffect
    /\ UNCHANGED <<appVars, user, mounted, fetching, load, reading, now, generating, kind, recs, upload, text, clock, csvVars>>

\* handleGenerate up to its await: the button is disabled while a call is
\* loading, and the continuation keeps the items of this render
HandleGenerate ==
    /\ kind = "Vocabulary"
    /\ generating = Undefined
    /\ generating' = Arr(items)
    /\ Forget
    /\ UNCHANGED <<appVars, items, reading, now, kind, recs, upload, text, clock, csvVars, loadVars>>

\* explainJapaneseWord resolved: setItems([newItem, ...items]) with the kept items
GenerateResolved ==
    /\ generating # Undefined
    /\ Len(generating.a) < MaxItems
    /\ items' = <<NewItem(kind, KeyN)>> \o generating.a
    /\ generating' = Undefined
    /\ Forget
    /\ SaveEffect
    /\ UNCHANGED <<appVars, user, mounted, fetching, load, reading, now, kind, recs, upload, text, clock, csvVars>>

\* explainJapaneseWord rejected: the catch branch leaves the list alone
GenerateRejected ==
    /\ generating # Undefined
    /\ generating' = Undefined
    /\ Forget
    /\ UNCHANGED <<appVars, items, reading, now, kind, recs, upload, text, clock, csvVars, loadVars>>

\* handleDelete(id): setItems(items.filter(item => item.id !== id))
HandleDelete ==
    /\ mounted
    /\ \E j \in 1..Len(items) :
        LET id == items[j].id
            Other(item) == item.id # id
        IN items' = SelectSeq(items, Other)
    /\ Forget
    /\ SaveEffect
    /\ UNCHANGED <<appVars, user, mounted, fetching, load, reading, now, generating, kind, recs, upload, text, clock, csvVars>>

\* handleFileChange: reader.readAsText(file) starts a read
HandleFileChange ==
    /\ Cardinality(reading) < MaxReads
    /\ \E f \in ImportFiles(kind) \ reading : reading' = reading \cup {f}
    /\ Forget
    /\ UNCHANGED <<appVars, items, now, generating, kind, recs, upload, text, clock, csvVars, loadVars>>

\* reader.onload: parse the text and merge the records into the current list
ReaderOnload ==
    /\ \E f \in reading :
        LET clk == [j \in 1..(2 * RowCount(f)) |-> now]
            newItems == Parse(kind, f, clk)
            merged == IF newItems.t = "array" THEN Merge(kind, newItems.a, items) ELSE items
        IN /\ Len(merged) <= MaxItems
           /\ out' = newItems
           /\ prev' = items
           /\ items' = merged
           /\ reading' = reading \ {f}
    /\ phase' = "imported"
    /\ SaveEffect
    /\ UNCHANGED <<appVars, user, mounted, fetching, load, now, generating, kind, recs, upload, text, clock, csvVars>>

Next ==
    \/ Tick
    \/ HandleSubmit
    \/ HandleGenerate
    \/ GenerateResolved
    \/ GenerateRejected
    \/ HandleDelete
    \/ HandleFileChange
    \/ ReaderOnload

Spec == SectionInit /\ [][Next]_vars

----------------------------------------------------------------------------
(* Properties of the import handlers (Spec) *)

Deduplicating == kind \in {"Vocabulary", "TravelSpot"}
KeyOf(rec) == IF kind = "Vocabulary" THEN rec.word ELSE rec.name
Keys(list) == {KeyOf(list[j]) : j \in 1..Len(list)}
Imported == phase = "imported" /\ out.t = "array"

\* the records the last import put in front of the list, given that the
\* list did not get shorter
Added == SubSeq(items, 1, Len(items) - Len(prev))

\* C9: a Vocabulary import drops every incoming record whose word is the
\* word of a record already in the list, a TravelSpot import every incoming
\* record whose name is the name of a record already in the list: after the
\* import no record put in front of the previous list carries a key of the
\* previous list, and when every incoming key was already present the list
\* is as long as before.
C9_ImportDropsKnownKeys ==
    (Imported /\ Deduplicating) =>
        /\ Len(items) >= Len(prev)
        /\ \A j \in 1..Len(Added) : KeyOf(Added[j]) \notin Keys(prev)
        /\ (Keys(out.a) \subseteq Keys(prev) => Len(items) = Len(prev))

\* a non-empty import all of whose keys were already in the list
C9_Witness ==
    /\ Imported /\ Deduplicating
    /\ out.a # <<>>
    /\ Keys(out.a) \subseteq Keys(prev)
    /\ Len(items) = Len(prev)

\* the parsed records an import keeps: all of them, or for Vocabulary and
\* TravelSpot those whose key is not in the previous list
IsKept(rec) == Deduplicating => KeyOf(rec) \notin Keys(prev)
KeptRecords == SelectSeq(out.a, IsKept)

\* C10: after an import the list is the parsed records, in parsed order and
\* none dropped (for Vocabulary and TravelSpot: those that pass the dedup
\* rule), followed by the previous list, record for record and in its order.
C10_ImportPrepends ==
    Imported =>
        /\ Len(items) = Len(KeptRecords) + Len(prev)
        /\ \A j \in 1..Len(KeptRecords) : items[j] = KeptRecords[j]
        /\ \A j \in 1..Len(prev) : items[Len(KeptRecords) + j] = prev[j]

\* an import of records into a list that already held records, in a section
\* that does not deduplicate
C10_Witness ==
    /\ Imported /\ ~Deduplicating
    /\ out.a # <<>>
    /\ prev # <<>>
    /\ Len(items) = Len(out.a) + Len(prev)

----------------------------------------------------------------------------
(* Properties of the ids and timestamps parse fills in (SpecUpload) *)

\* the cells of the k-th accepted row
AcceptedCols(k) == parseCSVLine(DataRows[AcceptedAt[k]])
HasEmptyId(k) == AcceptedCols(k)[1] = <<>>

\* C11: within one parse call any two accepted rows whose id cell is empty
\* receive different ids, whatever the clock returns at each row, and every
\* synthesized id is a non-empty string.
C11_SynthesizedIdsDistinct ==
    (phase = "parsed" /\ upload.lines # <<>>) =>
        /\ out.t = "array"
        /\ Len(out.a) = Len(AcceptedAt)
        /\ \A k \in 1..Len(out.a) :
            HasEmptyId(k) => IsStr(out.a[k].id) /\ out.a[k].id.s # <<>>
        /\ \A k1, k2 \in 1..Len(out.a) :
            (k1 # k2 /\ HasEmptyId(k1) /\ HasEmptyId(k2)) => out.a[k1].id # out.a[k2].id

\* two rows without an id parsed within the same millisecond
C11_Witness ==
    /\ phase = "parsed" /\ kind = "Song"
    /\ Len(AcceptedAt) = 2 /\ Len(out.a) = 2
    /\ HasEmptyId(1) /\ HasEmptyId(2)
    /\ NowId(clock, LoopIndex(AcceptedAt[1])) = NowId(clock, LoopIndex(AcceptedAt[2]))
    /\ out.a[1].id # out.a[2].id

----------------------------------------------------------------------------
(* Properties of the record list of a section (Spec) *)

\* C12: in every state reached by form submissions, deletes and imports,
\* every record's id is a non-empty string and no two records of the list
\* have the same id.
C12_IdsUniqueNonEmpty ==
    /\ \A j \in 1..Len(items) : IsStr(items[j].id) /\ items[j].id.s # <<>>
    /\ \A j1, j2 \in 1..Len(items) : j1 # j2 => items[j1].id # items[j2].id

\* the part of C12 that holds: every id is a non-empty string
C12_IdsNonEmpty ==
    \A j \in 1..Len(items) : IsStr(items[j].id) /\ items[j].id.s # <<>>

\* the same exported Song file imported twice, at different instants
C12_SameFileTwice ==
    /\ kind = "Song" /\ Imported
    /\ Len(items) = 2 /\ Len(out.a) = 1 /\ prev = out.a
    /\ out.a[1].id = Str(<<"2">>)
    /\ items[1].id = items[2].id

----------------------------------------------------------------------------
(* One uploaded row, cell by cell (SpecRow): the file is a header and one   *)
(* row whose id cell, optional cells and addedAt cell vary and whose        *)
(* trailing cells may be missing.                                           *)

\* what a cell of an optional column holds: nothing, "0", "4" or "x"
OptionalCells == {<<>>, <<"0">>, <<"4">>, <<"x">>}
\* what the addedAt cell holds: nothing, "0", "9", " 9" or "x"
AddedAtCells == {<<>>, <<"0">>, <<"9">>, <<SPACE, "9">>, <<"x">>}

\* the cells of a row of kind k in column order: v in the optional columns,
\* a in the addedAt column
FullRow(k, id, v, a) ==
    CASE k = "Vocabulary"     -> <<id, <<"w">>, <<"r">>, <<"m">>, <<"j">>, <<"e">>, <<"t">>, a>>
      [] k = "TravelSpot"     -> <<id, <<"n">>, <<"a">>, VisitedEN, v, v, v, a>>
      [] k = "Song"           -> <<id, <<"a">>, <<"s">>, v, a>>
      [] k = "MediaItem"      -> <<id, Anime, <<"t">>, Watching, v, v, v, a>>
      [] k = "ExperienceItem" -> <<id, <<"t">>, <<"c">>, <<"p">>, <<"d">>, v>>
      [] k = "DiaryEntry"     -> <<id, <<"d">>, <<"c">>, v, v, a>>

RowUploads(k) ==
    {[lines |-> <<HeaderLine(k), Cells(SubSeq(FullRow(k, id, v, a), 1, n))>>, eol |-> <<NL>>] :
        id \in {<<>>, <<"1">>}, v \in OptionalCells, a \in AddedAtCells,
        n \in MinCols(k)..Len(FullRow(k, <<>>, <<>>, <<>>))}

RowInit ==
    /\ kind \in Kinds
    /\ phase = "uploaded" /\ recs = <<>>
    /\ upload \in RowUploads(kind) /\ text = FileText(upload)
    /\ out = Undefined
    /\ clock = <<>>
    /\ cells = <<>> /\ escaped = <<>> /\ line = <<>> /\ fields = <<>>
    /\ NoSection

SpecRow == RowInit /\ [][ParseUpload]_vars

----------------------------------------------------------------------------
(* Properties of the cells of a parsed row (SpecRow) *)

\* the column of addedAt, counted from 0, for the kinds that have one
AddedAtColumn ==
    CASE kind = "Vocabulary" -> 7
      [] kind = "TravelSpot" -> 7
      [] kind = "Song"       -> 4
      [] kind = "MediaItem"  -> 7
      [] kind = "DiaryEntry" -> 5
HasAddedAt == kind # "ExperienceItem"

\* the row of the file, its cells, and the addedAt cell (undefined when missing)
TheRow == parseCSVLine(DataRows[1])
AddedAtCell == Col(TheRow, AddedAtColumn)
\* a cell is numeric when it is a decimal numeral, white space around it allowed
IsNumeric(cell) ==
    /\ IsStr(cell)
    /\ Trim(cell.s) # <<>>
    /\ \A j \in 1..Len(Trim(cell.s)) : Trim(cell.s)[j] \in DigitChars
\* the instant Date.now() returned in the addedAt expression of the row
ParseInstant == NowAddedAt(clock, 1)

\* C13: the parsed record's addedAt is the current time when the addedAt
\* cell is missing or not numeric, and the numeric value of the cell
\* whenever the cell is numeric.
C13_AddedAtFromCell ==
    (phase = "parsed" /\ HasAddedAt) =>
        /\ out.t = "array" /\ Len(out.a) = 1
        /\ out.a[1].addedAt =
              IF IsNumeric(AddedAtCell) THEN Num(DecimalValue(Trim(AddedAtCell.s)))
              ELSE Num(ParseInstant)

\* what holds instead: a cell whose value is 0 is treated as missing
C13_AddedAtFromNonZeroCell ==
    (phase = "parsed" /\ HasAddedAt) =>
        /\ out.t = "array" /\ Len(out.a) = 1
        /\ out.a[1].addedAt =
              IF IsNumeric(AddedAtCell) /\ DecimalValue(Trim(AddedAtCell.s)) # 0
              THEN Num(DecimalValue(Trim(AddedAtCell.s)))
              ELSE Num(ParseInstant)

\* a row whose addedAt cell is " 9", parsed at a later instant
C13_Witness ==
    /\ phase = "parsed" /\ kind = "MediaItem"
    /\ AddedAtCell = Str(<<SPACE, "9">>)
    /\ ParseInstant # 9
    /\ out.a[1].addedAt = Num(9)

\* the optional fields of the parsed record and the column of each, counted from 0
OptionalFields ==
    CASE kind = "TravelSpot" -> {<<"googleMapsUri", 4>>, <<"rating", 5>>, <<"userNotes", 6>>}
      [] kind = "MediaItem"  -> {<<"link", 4>>, <<"rating", 5>>, <<"notes", 6>>}
      [] kind = "DiaryEntry" -> {<<"mood", 3>>}
      [] OTHER               -> {}

IsEmptyCell(cell) == cell = Undefined \/ cell = Str(<<>>)

\* the value a non-empty cell carries: a number for rating, else the string
CellValue(field, cell) ==
    IF field = "rating" /\ IsNumeric(cell) THEN Num(DecimalValue(Trim(cell.s))) ELSE cell

\* C14: each optional field of the parsed record is undefined whenever its
\* cell is the empty string or absent, and carries the cell's value otherwise.
C14_OptionalFields ==
    (phase = "parsed" /\ OptionalFields # {}) =>
        /\ out.t = "array" /\ Len(out.a) = 1
        /\ \A f \in OptionalFields :
            LET cell == Col(TheRow, f[2]) IN
            out.a[1][f[1]] = IF IsEmptyCell(cell) THEN Undefined ELSE CellValue(f[1], cell)

\* the part of C14 that holds: an absent cell gives undefined, and a string
\* field carries the value of its non-empty cell
C14_AbsentOrValued ==
    (phase = "parsed" /\ OptionalFields # {}) =>
        /\ out.t = "array" /\ Len(out.a) = 1
        /\ \A f \in OptionalFields :
            LET cell == Col(TheRow, f[2]) IN
            /\ cell = Undefined => out.a[1][f[1]] = Undefined
            /\ (f[1] # "rating" /\ ~IsEmptyCell(cell)) => out.a[1][f[1]] = cell
            /\ (f[1] = "rating" /\ cell = Str(<<>>)) => out.a[1][f[1]] = Undefined

----------------------------------------------------------------------------
(* Properties of the import as a step (Spec) *)

\* the batch an import of the records newItems into the list old commits
Batch(newItems, old) ==
    LET IsNew(rec) == Deduplicating => KeyOf(rec) \notin Keys(old)
    IN SelectSeq(newItems, IsNew)

ReadStarts == reading' # reading /\ reading \subseteq reading'
ReadEnds == reading' # reading /\ reading' \subseteq reading

----------------------------------------------------------------------------
(* Properties of generate (SpecRoundTrip) *)

----------------------------------------------------------------------------
(* Uploaded files of blank lines and well-formed rows (SpecLines) *)

\* the blank line and the rows of Rows(k) with the id cell "1", "2" or empty
LineRows(k) ==
    {Blank} \cup {r \in Rows(k) : parseCSVLine(r)[1] \in {<<>>, <<"1">>, <<"2">>}}

LineUploads(k) ==
    {[lines |-> <<f>> \o rs, eol |-> eol] :
        f \in FirstLines(k),
        rs \in UNION {[1..n -> LineRows(k)] : n \in 0..MaxRows},
        eol \in LineEnds}

LinesInit ==
    /\ kind \in Kinds
    /\ phase = "uploaded" /\ recs = <<>>
    /\ upload \in LineUploads(kind) /\ text = FileText(upload)
    /\ out = Undefined
    /\ clock = <<>>
    /\ cells = <<>> /\ escaped = <<>> /\ line = <<>> /\ fields = <<>>
    /\ NoSection

SpecLines == LinesInit /\ [][ParseUpload]_vars

----------------------------------------------------------------------------
(* Properties of the line handling of parse (SpecLines) *)

\* the uploaded file with the line ending e, with the line l inserted behind
\* its first p lines, and without its blank lines
WithLineEnd(e) == [upload EXCEPT !.eol = e]
WithLineAt(p, l) ==
    [upload EXCEPT !.lines = SubSeq(upload.lines, 1, p) \o <<l>>
                               \o SubSeq(upload.lines, p + 1, Len(upload.lines))]
WithoutBlankLines == [upload EXCEPT !.lines = SelectSeq(upload.lines, IsNonBlank)]

\* parse of the file u, the clock showing each row the instants of the original call
ParsedFrom(u) == Parse(kind, FileText(u), clock)

\* C17: parse returns the same records whether the lines end in "\n" or in
\* "\r\n", and inserting a line that is empty after trimming anywhere (before
\* the header included) or removing such lines does not change the result.
C17_LineEndsAndBlankLines ==
    (phase = "parsed" /\ upload.lines # <<>>) =>
        /\ \A e \in LineEnds : ParsedFrom(WithLineEnd(e)) = out
        /\ ParsedFrom(WithoutBlankLines) = out
        /\ \A p \in 0..Len(upload.lines) :
            \A l \in {<<>>, Blank} : ParsedFrom(WithLineAt(p, l)) = out

\* a file with "\r\n" line ends and a blank line between two rows, parsed
C17_Witness ==
    /\ phase = "parsed" /\ upload.eol = <<CR, NL>>
    /\ Len(DataRows) = 2 /\ DataRows[1] = Blank
    /\ out.t = "array" /\ Len(out.a) = 1

\* the uploaded file with its first line replaced by f
WithFirstLine(f) == [upload EXCEPT !.lines = <<f>> \o Tail(upload.lines)]

\* lines to put in the place of the first line: the export's header, another
\* kind's header, a line without a comma, and the file's own data rows
OtherFirstLines ==
    {HeaderLine(kind), HeaderLine("Song"), HeaderLine("DiaryEntry"), <<"x">>}
        \cup {DataRows[j] : j \in {m \in 1..Len(DataRows) : DataRows[m] # Blank}}

\* C18: parse skips the first non-blank line and never interprets it: no
\* record comes from it, and replacing it by any other non-blank line leaves
\* the parsed records unchanged.
C18_FirstLineSkipped ==
    (phase = "parsed" /\ upload.lines # <<>>) =>
        /\ out.t = "array" /\ Len(out.a) = Len(AcceptedAt)
        /\ \A f \in OtherFirstLines : ParsedFrom(WithFirstLine(f)) = out

\* a file whose first line is not the export's header, with a row parsed
C18_Witness ==
    /\ phase = "parsed" /\ kind = "Song"
    /\ upload.lines # <<>> /\ Head(upload.lines) = <<"x">>
    /\ out.t = "array" /\ Len(out.a) = 2
    /\ ParsedFrom(WithFirstLine(HeaderLine("Song"))) = out

----------------------------------------------------------------------------
(* Properties of the generated text (SpecRoundTrip) *)

\* the header labels of the kind of the run
Headers ==
    CASE kind = "Vocabulary"     -> JapaneseHeaders
      [] kind = "TravelSpot"     -> TravelHeaders
      [] kind = "Song"           -> MusicHeaders
      [] kind = "MediaItem"      -> MediaHeaders
      [] kind = "ExperienceItem" -> ExperienceHeaders
      [] kind = "DiaryEntry"     -> DiaryHeaders

\* the values of a record in the column order of its kind; a list field is
\* one cell, its elements joined by the kind's separator
ColumnValues(rec) ==
    CASE kind = "Vocabulary" ->
            <<rec.id, rec.word, rec.reading, rec.meaning, rec.meaningJP, rec.exampleSentence,
              rec.exampleTranslation, rec.addedAt>>
      [] kind = "TravelSpot" ->
            <<rec.id, rec.name, rec.address, rec.status, rec.googleMapsUri, rec.rating,
              rec.userNotes, rec.addedAt>>
      [] kind = "Song" ->
            <<rec.id, rec.artist, rec.song, rec.url, rec.addedAt>>
      [] kind = "MediaItem" ->
            <<rec.id, rec.type, rec.title, rec.status, rec.link, rec.rating, rec.notes,
              rec.addedAt>>
      [] kind = "ExperienceItem" ->
            <<rec.id, rec.title, rec.company, rec.period, rec.description,
              Str(Join(rec.tags.a, <<SEMI>>))>>
      [] kind = "DiaryEntry" ->
            <<rec.id, rec.date, rec.content, rec.mood,
              Str(Join(rec.images.a, <<SEMI, SEMI, SEMI>>)), rec.addedAt>>

\* the escaped cells of a record joined by commas
ExpectedRow(rec) ==
    LET values == ColumnValues(rec)
    IN Join([c \in 1..Len(values) |-> escapeCSV(values[c])], <<COMMA>>)

\* the text behind the first n rows: the byte-order mark and the header row,
\* then a "\n" and a row for each of the first n records
RECURSIVE ExpectedText(_)
ExpectedText(n) ==
    IF n = 0 THEN <<BOM>> \o Join(Headers, <<COMMA>>)
    ELSE ExpectedText(n - 1) \o <<NL>> \o ExpectedRow(recs[n])

\* C19: the generated text is the byte-order mark, the header labels joined
\* by commas, then one row per record in list order, each of the kind's fixed
\* number of escaped cells joined by commas; rows are separated by one "\n"
\* and no newline ends the text; for the empty list the text is the
\* byte-order mark and the header row.
C19_GeneratedFormat ==
    phase = "generated" =>
        /\ text = ExpectedText(Len(recs))
        /\ text[Len(text)] # NL
        /\ \A n \in 1..Len(recs) :
            Len(parseCSVLine(ExpectedRow(recs[n]))) = Len(Headers)
        /\ recs = <<>> => text = <<BOM>> \o Join(Headers, <<COMMA>>)

\* two diary entries exported, the first with a line break in its content
C19_Witness ==
    /\ phase = "generated" /\ kind = "DiaryEntry"
    /\ Len(recs) = 2
    /\ recs[1].content = Str(TwoLines)
    /\ text[1] = BOM

----------------------------------------------------------------------------
(* Mounting a section and switching the profile (SpecLoad).  The load      *)
(* effect runs on mount and whenever the storage key changes; the save      *)
(* effect runs after it and after every change of the list.                 *)

\* what the server may hold as the seed file of kind k: a header row alone,
\* or an export of one record
SeedTexts(k) ==
    {HeaderLine(k), Generate(k, <<ItemWith(k, Str(<<"1">>), KeyM, Num(5))>>)}

\* The load effect for the key of profile p, run in a render whose list is
\* closure: saved state becomes the list; without saved state the seed is
\* fetched if the list of the render is empty, else the list is emptied.
\* The save effect then writes the list under the key (the write of the
\* same commit, which still holds the list of that render, is overwritten by
\* the write after the re-render; the step ends with the latter).
LoadEffect(p, closure) ==
    LET saved == storage[p]
        fetch == saved = Null /\ closure = <<>>
        loaded == IF saved # Null THEN saved.a ELSE <<>>
    IN /\ load' = [saved |-> saved, closure |-> closure, fetched |-> fetch]
       /\ items' = loaded
       /\ fetching' = IF fetch THEN fetching + 1 ELSE fetching
       /\ storage' = [storage EXCEPT ![p] = Arr(JsonOf(loaded))]
       /\ phase' = "loaded"

LoadInit ==
    /\ kind \in Kinds
    /\ phase = "idle"
    /\ items = <<>> /\ reading = {} /\ prev = <<>> /\ now = T0 /\ generating = Undefined
    /\ user = DefaultUser /\ mounted = FALSE /\ storage = NoStorage /\ fetching = 0
    /\ load = NoLoad
    /\ NoApp
    /\ recs = <<>> /\ upload = NoUpload /\ text = <<>> /\ out = Undefined /\ clock = <<>>
    /\ cells = <<>> /\ escaped = <<>> /\ line = <<>> /\ fields = <<>>

\* the view changes to the section: useState([]) and the effects of the first render
MountSection ==
    /\ ~mounted
    /\ mounted' = TRUE
    /\ LoadEffect(user, <<>>)
    /\ UNCHANGED <<appVars, user, out, prev, reading, now, generating,
                   kind, recs, upload, text, clock, csvVars>>

\* the view changes away: the list and the pending callbacks go with the component
UnmountSection ==
    /\ mounted
    /\ mounted' = FALSE
    /\ items' = <<>>
    /\ fetching' = 0
    /\ Forget
    /\ UNCHANGED <<appVars, user, storage, load, reading, now, generating,
                   kind, recs, upload, text, clock, csvVars>>

\* switchUser(id): the storage key of a mounted section changes
SwitchUser ==
    /\ \E p \in Profiles \ {user} :
        /\ user' = p
        /\ IF mounted
           THEN LoadEffect(p, items)
           ELSE phase' = "idle" /\ UNCHANGED <<items, fetching, storage, load>>
    /\ UNCHANGED <<appVars, mounted, out, prev, reading, now, generating,
                   kind, recs, upload, text, clock, csvVars>>

\* the seed fetch resolved: parsed = parse(text); if (parsed.length > 0) setItems(parsed)
SeedResolved ==
    /\ mounted /\ fetching > 0
    /\ \E seed \in SeedTexts(kind) :
        LET clk == [j \in 1..(2 * RowCount(seed)) |-> now]
            parsed == Parse(kind, seed, clk)
        IN /\ out' = parsed
           /\ IF parsed.t = "array" /\ parsed.a # <<>>
              THEN items' = parsed.a /\ SaveEffect
              ELSE UNCHANGED <<items, storage>>
    /\ fetching' = fetching - 1
    /\ phase' = "seeded"
    /\ UNCHANGED <<appVars, user, mounted, load, prev, reading, now, generating,
                   kind, recs, upload, text, clock, csvVars>>

\* the seed fetch failed (no such file, or no network): the catch ignores it
SeedRejected ==
    /\ mounted /\ fetching > 0
    /\ fetching' = fetching - 1
    /\ Forget
    /\ UNCHANGED <<appVars, user, mounted, storage, load, items, reading, now, generating,
                   kind, recs, upload, text, clock, csvVars>>

LoadNext ==
    \/ MountSection
    \/ UnmountSection
    \/ SwitchUser
    \/ SeedResolved
    \/ SeedRejected
    \/ HandleSubmit
    \/ HandleDelete

SpecLoad == LoadInit /\ [][LoadNext]_vars

----------------------------------------------------------------------------
(* Properties of loading (SpecLoad) *)

\* C20: whenever a section loads a storage key for which no saved state
\* exists, on mount or after a profile switch, the seed is fetched, and a
\* seed that parses to at least one record becomes the list; whenever saved
\* state exists the seed is not fetched and the list is the saved state.
C20_SeedIffNoSavedState ==
    /\ phase = "loaded" =>
          IF load.saved = Null
          THEN load.fetched
          ELSE ~load.fetched /\ items = load.saved.a
    /\ (phase = "seeded" /\ out.t = "array" /\ out.a # <<>>) => items = out.a

\* what holds instead: without saved state the seed is fetched exactly when
\* the list of the render that runs the effect is empty
C20_SeedIffListEmpty ==
    /\ phase = "loaded" =>
          IF load.saved = Null
          THEN (load.fetched <=> load.closure = <<>>) /\ items = <<>>
          ELSE ~load.fetched /\ items = load.saved.a
    /\ (phase = "seeded" /\ out.t = "array" /\ out.a # <<>>) => items = out.a

\* a profile without saved state loaded while the list held records
C20_SwitchWithRecords ==
    /\ phase = "loaded" /\ user # DefaultUser
    /\ load.saved = Null /\ load.closure # <<>>
    /\ ~load.fetched /\ fetching = 0

----------------------------------------------------------------------------
(* parseCSVLine on arbitrary lines *)

MaxLine == 5

ScanChars == {"a", COMMA, QUOTE}

\* a caller hands parseCSVLine any line: lines.slice(1).map(line => parseCSVLine(line))
ScanInputInit ==
    /\ phase = "joined"
    /\ line \in StrsUpTo(ScanChars, MaxLine)
    /\ cells = <<>>
    /\ escaped = <<>>
    /\ fields = <<>>
    /\ kind = "none" /\ recs = <<>> /\ upload = NoUpload /\ text = <<>>
    /\ out = Undefined /\ clock = <<>>
    /\ NoSection

SpecScan == ScanInputInit /\ [][ParseLine]_vars

RECURSIVE Walk(_, _, _)
\* What a reader who walks ln from position i (1-based) with the flag set to
\* flag meets: commas while the flag is clear, quotes that toggle the flag,
\* doubled quotes taken as one literal quote, and whether the flag is set at
\* the end of the line.
Walk(ln, i, flag) ==
    IF i > Len(ln) THEN [commas |-> 0, toggles |-> 0, literals |-> 0, open |-> flag]
    ELSE IF ln[i] = QUOTE
         THEN IF flag /\ i + 1 <= Len(ln) /\ ln[i + 1] = QUOTE
              THEN [Walk(ln, i + 2, flag) EXCEPT !.literals = @ + 1]
              ELSE [Walk(ln, i + 1, ~flag) EXCEPT !.toggles = @ + 1]
         ELSE IF ln[i] = COMMA /\ ~flag
              THEN [Walk(ln, i + 1, flag) EXCEPT !.commas = @ + 1]
              ELSE Walk(ln, i + 1, flag)

RECURSIVE TotalLen(_)
TotalLen(fs) == IF fs = <<>> THEN 0 ELSE Len(Head(fs)) + TotalLen(Tail(fs))

RECURSIVE QuotesIn(_)
QuotesIn(fs) ==
    IF fs = <<>> THEN 0
    ELSE Len(SelectSeq(Head(fs), LAMBDA c : c = QUOTE)) + QuotesIn(Tail(fs))

\* C21: parseCSVLine returns at least one field and exactly one field more
\* than the commas met while the flag is clear; a quote that toggles the flag
\* emits nothing, a doubled quote inside quotes emits one literal quote and
\* uses up both characters, and every other character is emitted; this holds
\* for the empty line and for a line whose quote is never closed.
C21_OneScanOneFlag ==
    phase = "scanned" =>
        LET w == Walk(line, 1, FALSE) IN
        /\ Len(fields) >= 1
        /\ Len(fields) = 1 + w.commas
        /\ QuotesIn(fields) = w.literals
        /\ TotalLen(fields) = Len(line) - w.commas - w.toggles - w.literals

\* the line """, : the quote is opened, a doubled quote follows, the comma is
\* inside the quotes and the quote is never closed
C21_Witness ==
    /\ phase = "scanned"
    /\ line = <<QUOTE, QUOTE, QUOTE, COMMA>>
    /\ fields = << <<QUOTE, COMMA>> >>
    /\ Walk(line, 1, FALSE).open

----------------------------------------------------------------------------
(* Two browser tabs on the same storage key (SpecTabs).  Each tab runs its *)
(* own instance of the section with its own list; localStorage is shared.   *)
(* A tab's load effect, re-render and save effect run as one step, and so   *)
(* does a handler with the save effect that follows it.                     *)

\* what the user types into the form of each tab
TabKey(t) == IF t = 1 THEN KeyN ELSE KeyM

\* a save that first reads what is stored and keeps the records it lacks
TabSave_Merging(list) ==
    LET stored == IF storage[user] = Null THEN <<>> ELSE storage[user].a
        Missing(rec) == \A j \in 1..Len(list) : JsonOf(list)[j] # rec
    IN Arr(JsonOf(list) \o SelectSeq(stored, Missing))

\* the save effect of a tab: localStorage.setItem(storageKey, JSON.stringify(items))
TabSave(list) == Arr(JsonOf(list))

TabsInit ==
    /\ kind \in Kinds \ {"Vocabulary"}
    /\ phase = "idle"
    /\ items = <<>> /\ reading = {} /\ prev = <<>> /\ now = T0 /\ generating = Undefined
    /\ user = DefaultUser /\ mounted = FALSE /\ fetching = 0 /\ load = NoLoad
    /\ storage \in {NoStorage,
                    [NoStorage EXCEPT ![DefaultUser] =
                        Arr(JsonOf(<<ItemWith(kind, Str(<<"1">>), <<"k">>, Num(5))>>))]}
    /\ NoApp
    /\ recs = <<>> /\ upload = NoUpload /\ text = <<>> /\ out = Undefined /\ clock = <<>>
    /\ cells = <<>> /\ escaped = <<>> /\ line = <<>> /\ fields = <<>>

\* a tab opens the section: the load effect takes the saved list (without
\* one the seed fetch finds no file), the save effect writes the list back
TabMount(t) ==
    /\ ~tabs[t].mounted
    /\ LET loaded == IF storage[user] # Null THEN storage[user].a ELSE <<>>
       IN /\ tabs' = [tabs EXCEPT ![t] = [mounted |-> TRUE, items |-> loaded]]
          /\ storage' = [storage EXCEPT ![user] = TabSave(loaded)]
    /\ UNCHANGED <<phase, csvVars, adapterVars, sectionVars, user, mounted, fetching, load,
                   users, registry, pending>>

\* handleSubmit in tab t: setItems([newItem, ...items]), then the save effect
TabSubmit(t) ==
    /\ tabs[t].mounted
    /\ Len(tabs[t].items) < MaxItems
    /\ LET list == <<NewItem(kind, TabKey(t))>> \o tabs[t].items
       IN /\ tabs' = [tabs EXCEPT ![t].items = list]
          /\ storage' = [storage EXCEPT ![user] = TabSave(list)]
    /\ UNCHANGED <<phase, csvVars, adapterVars, sectionVars, user, mounted, fetching, load,
                   users, registry, pending>>

\* handleDelete(id) in tab t, then the save effect
TabDelete(t) ==
    /\ tabs[t].mounted
    /\ \E j \in 1..Len(tabs[t].items) :
        LET id == tabs[t].items[j].id
            Other(item) == item.id # id
            list == SelectSeq(tabs[t].items, Other)
        IN /\ tabs' = [tabs EXCEPT ![t].items = list]
           /\ storage' = [storage EXCEPT ![user] = TabSave(list)]
    /\ UNCHANGED <<phase, csvVars, adapterVars, sectionVars, user, mounted, fetching, load,
                   users, registry, pending>>

\* the tab is closed: its list goes with it
TabClose(t) ==
    /\ tabs[t].mounted
    /\ tabs' = [tabs EXCEPT ![t] = [mounted |-> FALSE, items |-> <<>>]]
    /\ UNCHANGED <<phase, csvVars, adapterVars, sectionVars, loadVars, users, registry, pending>>

\* time passes
TabsTick ==
    /\ now < MaxNow
    /\ now' = now + 1
    /\ UNCHANGED <<phase, csvVars, adapterVars, items, reading, prev, generating,
                   loadVars, appVars>>

TabsNext ==
    \/ \E t \in Tabs : TabMount(t)
    \/ \E t \in Tabs : TabSubmit(t)
    \/ \E t \in Tabs : TabDelete(t)
    \/ \E t \in Tabs : TabClose(t)
    \/ TabsTick

SpecTabs == TabsInit /\ [][TabsNext]_vars

\* the stored list, [] when nothing is stored
Stored == IF storage[user] = Null THEN <<>> ELSE storage[user].a

\* the field of a record that holds what was typed into the form's first text field
TypedKey(rec) ==
    CASE kind = "Vocabulary"     -> rec.word
      [] kind = "TravelSpot"     -> rec.name
      [] kind = "Song"           -> rec.artist
      [] kind = "MediaItem"      -> rec.title
      [] kind = "ExperienceItem" -> rec.title
      [] kind = "DiaryEntry"     -> rec.date

HasKey(list, key) == \E j \in 1..Len(list) : TypedKey(list[j]) = Str(key)

\* C22: load, mutate and save are not atomic across two tabs.  Every step of
\* a tab that changes its list stores exactly that tab's list, whatever the
\* other tab holds and whatever was stored before (last save wins), and no
\* step of a tab changes the list of the other tab.
C22_LastSaveWins ==
    [][\A t \in Tabs :
        tabs'[t].items # tabs[t].items /\ tabs'[t].mounted
            => /\ storage'[user] = Arr(JsonOf(tabs'[t].items))
               /\ \A o \in Tabs \ {t} : tabs'[o] = tabs[o]]_vars

\* both tabs loaded the same list, each added its record and saved, and
\* the stored list is without the record of tab 1
C22_Witness ==
    /\ tabs[1].mounted /\ tabs[2].mounted
    /\ tabs[1].items # <<>> /\ tabs[2].items # <<>>
    /\ Tail(tabs[1].items) = Tail(tabs[2].items)
    /\ TypedKey(Head(tabs[1].items)) = Str(KeyN)
    /\ TypedKey(Head(tabs[2].items)) = Str(KeyM)
    /\ Stored = JsonOf(tabs[2].items)
    /\ ~HasKey(Stored, KeyN)

----------------------------------------------------------------------------
(* Record counts of the round trip (SpecRoundTrip) *)

NoLineBreaks == \A k \in 1..Len(recs) : ~HasLineBreak(recs[k])

\* C23: for each adapter and every record list without a line break in any
\* field, parse(generate(records)) has as many records as the list, and
\* record k of the output has the id of record k of the list whenever that
\* id is not empty.
C23_SameCountSameIds ==
    (phase = "roundtrip" /\ NoLineBreaks)
    => /\ out.t = "array"
       /\ Len(out.a) = Len(recs)
       /\ \A k \in 1..Len(recs) :
            recs[k].id # Str(<<>>) => out.a[k].id = recs[k].id

\* two records without a line break, one with a comma and a quote in a
\* field, went through generate and parse
C23_Witness ==
    /\ phase = "roundtrip"
    /\ Len(recs) = 2
    /\ NoLineBreaks
    /\ \E k \in 1..2 : \E f \in DOMAIN recs[k] : recs[k][f] = Str(CommaQuote)
    /\ out.t = "array"
    /\ Len(out.a) = 2
    /\ out.a[1].id = recs[1].id /\ out.a[2].id = recs[2].id

\* C24: for each adapter and every record list, fields with newlines and
\* commas included, parse(generate(records)) has at most as many records as
\* the list.
C24_NeverMoreRecords ==
    phase = "roundtrip" => out.t = "array" /\ Len(out.a) <= Len(recs)

----------------------------------------------------------------------------
(* An import as its two steps (SpecMerge): reader.onload parses the text   *)
(* and hands React the updater; the updater merges the parsed records into  *)
(* the list.                                                                *)

\* the lists a section holds when the file is read
PriorLists(k) ==
    {<<>>,
     <<ItemWith(k, Str(<<"8">>), KeyN, Num(5))>>,
     <<ItemWith(k, Str(<<"8">>), KeyN, Num(5)), ItemWith(k, Str(<<"9">>), KeyM, Num(5))>>}

MergeInit ==
    /\ kind \in Kinds
    /\ phase = "uploaded" /\ recs = <<>>
    /\ upload \in LineUploads(kind) /\ text = FileText(upload)
    /\ out = Undefined
    /\ clock = <<>>
    /\ cells = <<>> /\ escaped = <<>> /\ line = <<>> /\ fields = <<>>
    /\ items \in PriorLists(kind)
    /\ reading = {} /\ prev = <<>> /\ now = 0 /\ generating = Undefined
    /\ user = DefaultUser /\ mounted = TRUE /\ fetching = 0 /\ load = NoLoad
    /\ storage = [NoStorage EXCEPT ![DefaultUser] = Arr(JsonOf(items))]
    /\ NoApp

\* setItems(prev => ...): the updater of the import, then the save effect
MergeParsed ==
    /\ phase = "parsed"
    /\ out.t = "array"
    /\ prev' = items
    /\ items' = Merge(kind, out.a, items)
    /\ phase' = "imported"
    /\ SaveEffect
    /\ UNCHANGED <<appVars, csvVars, adapterVars, reading, now, generating,
                   user, mounted, fetching, load>>

MergeNext == ParseUpload \/ MergeParsed

SpecMerge == MergeInit /\ [][MergeNext]_vars

----------------------------------------------------------------------------
(* Natural keys after an import (SpecMerge), interleavings of the section  *)
(* handlers (Spec)                                                          *)

\* no two records of the list carry the same word (Vocabulary) or name (TravelSpot)
UniqueKeys(list) ==
    \A x, y \in 1..Len(list) : x # y => KeyOf(list[x]) # KeyOf(list[y])

\* C25: an import into a Vocabulary or TravelSpot list in which no two
\* records share the key leaves a list in which no two records share the
\* key, whatever the file holds.
C25_ImportKeepsKeysUnique ==
    (Imported /\ Deduplicating /\ UniqueKeys(prev)) => UniqueKeys(items)

\* C26: in the vocabulary section a handleGenerate call that completes puts
\* its new word in front of the list as it is at that moment: the records an
\* import merged and the removals a delete made while the call was waiting
\* for the AI service are still in effect afterwards.
C26_GenerateKeepsUpdates ==
    [][(generating # Undefined /\ generating' = Undefined /\ items' # items)
        => (items' # <<>> /\ Tail(items') = items)]_vars

\* the records of a list
Range(list) == {list[j] : j \in 1..Len(list)}

\* an incoming record the merge accepts into the list old
Accepted(rec, old) == Deduplicating => KeyOf(rec) \notin Keys(old)

\* C27: with two imports in flight, whichever read completes first, the
\* updater of a completing read receives the list as it is at that moment,
\* the batch of an earlier completion included: every record of that list
\* stays, in its place behind the new records, every accepted record of the
\* batch is in the list afterwards, and for Vocabulary and TravelSpot a
\* record is accepted only if its key is not in that list.
C27_ConcurrentImportsMerge ==
    [][(ReadEnds /\ out'.t = "array") =>
        LET shift == Len(items') - Len(items) IN
        /\ prev' = items
        /\ shift >= 0
        /\ \A j \in 1..Len(items) : items'[shift + j] = items[j]
        /\ \A j \in 1..Len(out'.a) :
            Accepted(out'.a[j], items) => out'.a[j] \in Range(items')
        /\ Deduplicating =>
            \A j \in 1..shift : KeyOf(items'[j]) \notin Keys(items)]_vars

\* two imports were in flight; the export of the records n and m completed
\* first, and the later merge of the export of m found m in the list
C27_Witness ==
    /\ Imported /\ Deduplicating
    /\ reading = {}
    /\ Len(prev) = 2
    /\ prev[1].id = Str(<<"1">>) /\ prev[2].id = Str(<<"2">>)
    /\ Len(out.a) = 1 /\ KeyOf(out.a[1]) = Str(KeyM)
    /\ items = prev

----------------------------------------------------------------------------
(* The effects of a section one by one (SpecEffects).  After a commit      *)
(* React runs the effects whose dependencies changed, in the order of       *)
(* their definition and each with the values of that render; a setItems     *)
(* called by an effect takes hold in the re-render that follows them.       *)
(* Handlers run only when no effect is waiting.  The server holds no seed   *)
(* file, so a seed fetch is rejected.                                       *)

\* what the user of each profile types into the form
ProfileKey(p) == IF p = DefaultUser THEN KeyN ELSE KeyM

\* an effect waiting to run: its storageKey and items are those of the render
Effect(name, commit, p, list) == [name |-> name, commit |-> commit, key |-> p, closure |-> list]

\* the effects of a render in which storageKey changed: load, then save
KeyEffects(commit, p, list) ==
    <<Effect("load", commit, p, list), Effect("save", commit, p, list)>>

\* the effects of a render in which only items changed: save
UpdateEffects(p, list) == <<Effect("save", "update", p, list)>>

EffectsInit ==
    /\ kind \in Kinds \ {"Vocabulary"}
    /\ phase = "idle"
    /\ items = <<>> /\ reading = {} /\ prev = <<>> /\ now = T0 /\ generating = Undefined
    /\ user = DefaultUser /\ mounted = FALSE /\ storage = NoStorage /\ fetching = 0
    /\ load = NoLoad
    /\ NoApp
    /\ recs = <<>> /\ upload = NoUpload /\ text = <<>> /\ out = Undefined /\ clock = <<>>
    /\ cells = <<>> /\ escaped = <<>> /\ line = <<>> /\ fields = <<>>

\* the view changes to the section: first render with useState([])
EffMount ==
    /\ ~mounted /\ pending = NoPending
    /\ mounted' = TRUE
    /\ items' = <<>>
    /\ pending' = [effects |-> KeyEffects("mount", user, <<>>), queued |-> Undefined]
    /\ UNCHANGED <<phase, csvVars, adapterVars, reading, prev, now, generating,
                   user, storage, fetching, load, users, registry, tabs>>

\* switchUser(id): a mounted section renders again with the new storageKey
EffSwitchUser ==
    /\ pending = NoPending
    /\ \E p \in Profiles \ {user} :
        /\ user' = p
        /\ pending' = IF mounted
                      THEN [effects |-> KeyEffects("switch", p, items), queued |-> Undefined]
                      ELSE pending
    /\ UNCHANGED <<phase, csvVars, adapterVars, sectionVars, mounted, storage, fetching, load,
                   users, registry, tabs>>

\* the load effect
RunLoadEffect ==
    /\ pending.effects # <<>>
    /\ Head(pending.effects).name = "load"
    /\ LET e == Head(pending.effects)
           saved == storage[e.key]
           fetch == saved = Null /\ e.closure = <<>>
       IN /\ load' = [saved |-> saved, closure |-> e.closure, fetched |-> fetch]
          /\ fetching' = IF fetch THEN fetching + 1 ELSE fetching
          /\ pending' = [effects |-> Tail(pending.effects),
                         queued |-> IF saved # Null THEN Arr(saved.a)
                                    ELSE IF fetch THEN pending.queued ELSE Arr(<<>>)]
    /\ UNCHANGED <<phase, csvVars, adapterVars, sectionVars, user, mounted, storage,
                   users, registry, tabs>>

\* the save effect: localStorage.setItem(storageKey, JSON.stringify(items))
RunSaveEffect ==
    /\ pending.effects # <<>>
    /\ Head(pending.effects).name = "save"
    /\ LET e == Head(pending.effects)
       IN storage' = [storage EXCEPT ![e.key] = Arr(JsonOf(e.closure))]
    /\ pending' = [pending EXCEPT !.effects = Tail(@)]
    /\ UNCHANGED <<phase, csvVars, adapterVars, sectionVars, user, mounted, fetching, load,
                   users, registry, tabs>>

\* the re-render after the effects: the queued setItems takes hold
Rerender ==
    /\ pending.effects = <<>>
    /\ pending.queued # Undefined
    /\ items' = pending.queued.a
    /\ pending' = [effects |-> UpdateEffects(user, pending.queued.a), queued |-> Undefined]
    /\ UNCHANGED <<phase, csvVars, adapterVars, reading, prev, now, generating,
                   user, mounted, storage, fetching, load, users, registry, tabs>>

\* handleSubmit: setItems([newItem, ...items])
EffSubmit ==
    /\ mounted /\ pending = NoPending
    /\ Len(items) < MaxItems
    /\ items' = <<NewItem(kind, ProfileKey(user))>> \o items
    /\ pending' = [effects |-> UpdateEffects(user, items'), queued |-> Undefined]
    /\ UNCHANGED <<phase, csvVars, adapterVars, reading, prev, now, generating,
                   user, mounted, storage, fetching, load, users, registry, tabs>>

\* handleDelete(id): setItems(items.filter(item => item.id !== id))
EffDelete ==
    /\ mounted /\ pending = NoPending
    /\ \E j \in 1..Len(items) :
        LET id == items[j].id
            Other(item) == item.id # id
        IN items' = SelectSeq(items, Other)
    /\ pending' = [effects |-> UpdateEffects(user, items'), queued |-> Undefined]
    /\ UNCHANGED <<phase, csvVars, adapterVars, reading, prev, now, generating,
                   user, mounted, storage, fetching, load, users, registry, tabs>>

\* the view changes away: the list goes with the component
EffUnmount ==
    /\ mounted /\ pending = NoPending
    /\ mounted' = FALSE
    /\ items' = <<>>
    /\ fetching' = 0
    /\ UNCHANGED <<phase, csvVars, adapterVars, reading, prev, now, generating,
                   user, storage, load, appVars>>

\* the seed fetch found no file: the catch ignores it
EffSeedRejected ==
    /\ mounted /\ pending = NoPending
    /\ fetching > 0
    /\ fetching' = fetching - 1
    /\ UNCHANGED <<phase, csvVars, adapterVars, sectionVars, user, mounted, storage, load, appVars>>

EffectsNext ==
    \/ EffMount
    \/ EffSwitchUser
    \/ RunLoadEffect
    \/ RunSaveEffect
    \/ Rerender
    \/ EffSubmit
    \/ EffDelete
    \/ EffUnmount
    \/ EffSeedRejected

SpecEffects == EffectsInit /\ [][EffectsNext]_vars

----------------------------------------------------------------------------
(* Profile isolation (SpecEffects) *)

\* every record stored under the key of profile p was typed in under p
OnlyOwnRecords(p) ==
    storage[p] # Null =>
        \A j \in 1..Len(storage[p].a) : TypedKey(storage[p].a[j]) = Str(ProfileKey(p))

\* the step replaces a stored list that holds records by the empty list
EmptiesStored(p) ==
    /\ storage[p] # Null /\ storage[p].a # <<>>
    /\ storage'[p] = Arr(<<>>)

\* C28: in every reachable state, the states between the effects of a mount
\* or a profile switch included, what is stored under the key of a profile
\* holds only records of that profile, and no effect of a mount replaces a
\* profile's saved list by the empty list.
C28_ProfileIsolation ==
    /\ [](\A p \in Profiles : OnlyOwnRecords(p))
    /\ [][(pending.effects # <<>> /\ Head(pending.effects).commit = "mount")
            => \A p \in Profiles : ~EmptiesStored(p)]_vars

\* the two halves of C28 on their own
C28_OnlyOwnRecords == \A p \in Profiles : OnlyOwnRecords(p)
C28_MountKeepsSaved ==
    [][(pending.effects # <<>> /\ Head(pending.effects).commit = "mount")
        => \A p \in Profiles : ~EmptiesStored(p)]_vars

\* what holds: whenever no effect and no setItems is waiting, the stored
\* lists hold only records of their profile, and the stored list of the
\* current profile of a mounted section is the list
C28_IsolatedAtRest ==
    pending = NoPending =>
        /\ \A p \in Profiles : OnlyOwnRecords(p)
        /\ mounted => storage[user] = Arr(JsonOf(items))

----------------------------------------------------------------------------
(* The profile list (SpecUsers).  The Sidebar calls addUser, switchUser    *)
(* and deleteUser from its event handlers, one call per event, so each      *)
(* call sees the users and currentUser of the latest render.  A name has    *)
(* to be typed before addUser can be called again, so time has passed       *)
(* since the previous call.                                                 *)

MaxUsers == 3
MaxAdds == 3

\* users.find(u => u.id === id) finds a profile
Listed(list, id) == \E j \in 1..Len(list) : list[j] = id

\* a deleteUser that does not look at the length of the list
MayDelete_Always(list) == TRUE

\* if (users.length <= 1) return;
MayDelete(list) == ~(Len(list) <= 1)

UsersInit ==
    /\ phase = "booted"
    /\ users = <<DefaultUser>> /\ user = DefaultUser /\ registry = NoRegistry
    /\ now = T0
    /\ tabs = NoTabs /\ pending = NoPending
    /\ items = <<>> /\ reading = {} /\ prev = <<>> /\ generating = Undefined
    /\ mounted = FALSE /\ storage = NoStorage /\ fetching = 0 /\ load = NoLoad
    /\ kind = "none" /\ recs = <<>> /\ upload = NoUpload /\ text = <<>>
    /\ out = Undefined /\ clock = <<>>
    /\ cells = <<>> /\ escaped = <<>> /\ line = <<>> /\ fields = <<>>

\* addUser(name, pin): saveUsers([...users, newUser]), then switchUser(newUser.id),
\* which looks the id up in the users of the render that made the call
AddUser ==
    /\ Len(users) < MaxUsers
    /\ now < T0 + MaxAdds
    /\ now' = now + 1
    /\ LET id == ToString(now')
           newUsers == Append(users, id)
           found == Listed(users, id)
       IN /\ users' = newUsers
          /\ user' = IF found THEN id ELSE user
          /\ registry' = [users |-> Arr(newUsers),
                          current |-> IF found THEN Str(id) ELSE registry.current]
    /\ phase' = "added"
    /\ UNCHANGED <<csvVars, adapterVars, items, reading, prev, generating,
                   mounted, storage, fetching, load, tabs, pending>>

\* switchUser(id) from handleUserClick, for a profile of the list
SwitchProfile ==
    /\ \E j \in 1..Len(users) :
        /\ user' = users[j]
        /\ registry' = [registry EXCEPT !.current = Str(users[j])]
    /\ phase' = "switched"
    /\ UNCHANGED <<csvVars, adapterVars, sectionVars, mounted, storage, fetching, load,
                   users, tabs, pending>>

\* deleteUser(id): with newUsers empty, newUsers[0].id throws after saveUsers
DeleteUser ==
    /\ \E j \in 1..Len(users) :
        LET id == users[j]
            Other(u) == u # id
            newUsers == SelectSeq(users, Other)
        IN IF ~MayDelete(users)
           THEN UNCHANGED <<users, user, registry>>
           ELSE /\ users' = newUsers
                /\ IF user = id /\ newUsers # <<>> /\ Listed(users, newUsers[1])
                   THEN /\ user' = newUsers[1]
                        /\ registry' = [users |-> Arr(newUsers), current |-> Str(newUsers[1])]
                   ELSE /\ user' = user
                        /\ registry' = [registry EXCEPT !.users = Arr(newUsers)]
    /\ phase' = "deleted"
    /\ UNCHANGED <<csvVars, adapterVars, sectionVars, mounted, storage, fetching, load,
                   tabs, pending>>

\* the page is loaded again: useState([DEFAULT_USER]), useState(DEFAULT_USER)
\* and the boot effect, which takes the saved list and the saved current id
ReloadPage ==
    /\ LET parsedUsers == IF registry.users # Null THEN registry.users.a ELSE <<DefaultUser>>
           found == /\ registry.users # Null /\ registry.current # Null
                    /\ Listed(parsedUsers, registry.current.s)
       IN /\ users' = parsedUsers
          /\ user' = IF found THEN registry.current.s ELSE DefaultUser
    /\ phase' = "booted"
    /\ UNCHANGED <<csvVars, adapterVars, sectionVars, mounted, storage, fetching, load,
                   registry, tabs, pending>>

UsersNext == AddUser \/ SwitchProfile \/ DeleteUser \/ ReloadPage

SpecUsers == UsersInit /\ [][UsersNext]_vars

----------------------------------------------------------------------------
(* Properties of the profile list (SpecUsers) *)

\* C29: after any sequence of addUser, switchUser and deleteUser calls the
\* profile list is not empty and the current profile is in it; a deleteUser
\* call on a list of one profile changes nothing, and a deleteUser call
\* that removes the current profile makes the first remaining profile the
\* current one.
C29_CurrentProfileListed ==
    /\ [](users # <<>> /\ Listed(users, user))
    /\ [][phase' = "deleted" =>
            /\ Len(users) = 1 => (users' = users /\ user' = user /\ registry' = registry)
            /\ ~Listed(users', user) => user' = Head(users')]_vars

\* the current profile was deleted from a list of three, and the first of
\* the two remaining profiles is the current one
C29_Witness ==
    /\ phase = "deleted"
    /\ Len(users) = 2
    /\ user = users[1]
    /\ registry.current = Str(user)
    /\ ~Listed(users, DefaultUser)

\* C30: after addUser(name, pin) completes, the new profile is in the
\* profile list, it is the current profile, and its id is what is stored
\* under myhub_current_user_id.
C30_AddedProfileIsCurrent ==
    phase = "added" =>
        LET id == users[Len(users)] IN
        /\ id = ToString(now)
        /\ Listed(users, id)
        /\ user = id
        /\ registry.current = Str(id)

====
